---- MODULE Spec2Model ----
(***************************************************************************)
(* State-machine model of SLADE's ArchiveManager                            *)
(* (src/src/Archive/ArchiveManager.cpp): the registry of open archives,    *)
(* the nesting edges between them, the bookmark list, the recent-file      *)
(* list, the base resource archive and the resource lookups.               *)
(*                                                                         *)
(* An Archive* is a handle 1..MaxHandles (0 is nullptr).  An ArchiveEntry* *)
(* is the record [a |-> owning archive handle, n |-> entry name], so that  *)
(* entry->parent() is the field a.  A path is a sequence of tokens, the    *)
(* separators "/" and "\\" being tokens of their own.                      *)
(***************************************************************************)
EXTENDS Integers, Sequences, FiniteSets, TLC

\* Number of Archive objects that can be alive at once (the heap the model explores).
MaxHandles == 3
\* Longest bookmark list the model explores.
MaxBookmarks == 2
\* Number of archives opened with manage = false that the caller holds at once.
MaxUnmanaged == 1

\* Largest value of max_recent_files the model explores.
MaxRecent == 3
\* Longest list of paths handed to addRecentFiles.
MaxPaths == 2

VARIABLES
    open_archives,        \* vector<OpenArchive> open_archives_
    heap,                 \* the Archive objects: handle -> attributes
    unmanaged,            \* archives returned with manage = false (the caller owns them)
    bookmarks,            \* vector<ArchiveEntry*> bookmarks_
    recent_files,         \* vector<wxString> recent_files_
    base_resource_paths,  \* vector<wxString> base_resource_paths_
    base_resource_archive,\* unique_ptr<Archive> base_resource_archive_ (0 = none)
    base_resource,        \* CVAR base_resource
    pool,                 \* archives registered with App::resources()
    cvars,                \* [auto_open_wads_root, max_recent_files]
    crashed               \* the process has run into undefined behaviour and aborted

vars == <<open_archives, heap, unmanaged, bookmarks, recent_files, base_resource_paths,
          base_resource_archive, base_resource, pool, cvars, crashed>>

Handles == 1..MaxHandles
NullArchive == 0
NullEntry == [a |-> 0, n |-> ""]
NoPath == <<>>

-----------------------------------------------------------------------------
(* The world outside the manager: files on disk and the bytes in them.     *)

\* Files that exist.  PathZw names the same file as PathZ, written with a backslash.
PathZ == <<"a", "/", "z.zip">>
PathZw == <<"a", "\\", "z.zip">>
PathK == <<"k.zip">>
PathB == <<"b.wad">>
PathBad == <<"c.txt">>
PathFail == <<"f.wad">>
\* A zip with directories inside.
PathD == <<"d.zip">>
\* A zip that holds a zip, and a zip whose root holds a damaged wad before a good one.
PathO == <<"o.zip">>
PathM == <<"m.zip">>
\* A pod archive, and a zip that holds the same bytes twice: as x.pod and as y.
PathP == <<"p.pod">>
PathQ == <<"q.zip">>

\* A path that names no file or directory.
PathNone == <<"n.wad">>

\* wxString::Replace("\\", "/") as addRecentFile applies it.
ReplaceBackslash(path) == [i \in 1..Len(path) |-> IF path[i] = "\\" THEN "/" ELSE path[i]]

\* The bytes a path holds; the file system accepts either separator.
FileContent(path) ==
    LET p == ReplaceBackslash(path) IN
    CASE p = PathZ -> "Z"
      [] p = PathK -> "K"
      [] p = PathB -> "B"
      [] p = PathBad -> "L"
      [] p = PathFail -> "F"
      [] p = PathD -> "T"
      [] p = PathO -> "O"
      [] p = PathM -> "M"
      [] p = PathP -> "P"
      [] p = PathQ -> "Q"
      [] OTHER -> "none"

\* The formats whose detector (isWadArchive, isZipArchive, ...) accepts the bytes.
Accepts(content) ==
    CASE content \in {"W", "V", "Y", "B", "F", "EW"} -> {"wad"}
      [] content \in {"Z", "K", "EZ", "T", "O", "M", "Q"} -> {"zip"}
      [] content = "D" -> {"dat", "lib"}
      [] content = "P" -> {"pod"}
      [] OTHER -> {}

\* Whether Archive::open succeeds on the bytes once a format has been chosen.
Loads(content) == content # "F"

\* The entries of the root directory of an archive holding the bytes, in archive
\* order: z.zip holds a wad of lumps, k.zip a wad that holds a wad, b.wad lumps and a
\* damaged wad, d.zip a lump and the directory d.
EntryNames(content) ==
    CASE content = "Z" -> <<"w", "l">>
      [] content = "W" -> <<"l">>
      [] content = "K" -> <<"v", "m">>
      [] content = "V" -> <<"y", "l">>
      [] content = "Y" -> <<"l">>
      [] content = "B" -> <<"l", "m", "f">>
      [] content = "T" -> <<"d", "l">>
      [] content = "O" -> <<"i">>
      [] content = "M" -> <<"f", "w", "l">>
      [] content = "Q" -> <<"x.pod", "y", "l">>
      [] OTHER -> <<>>

\* The bytes of entry n of an archive holding the bytes content.
EntryData(content, n) ==
    CASE content = "Z" /\ n = "w" -> "W"
      [] content = "K" /\ n = "v" -> "V"
      [] content = "V" /\ n = "y" -> "Y"
      [] content = "B" /\ n = "f" -> "F"
      [] content = "O" /\ n = "i" -> "Z"
      [] content = "M" /\ n = "f" -> "F"
      [] content = "M" /\ n = "w" -> "W"
      [] content = "Q" /\ n \in {"x.pod", "y"} -> "P"
      [] OTHER -> "L"

\* The directories below the root, each named as its directory entry is, and the
\* entries each holds: d.zip holds d/e, d/m and d/e/n.
DirNames(content) == IF content = "T" THEN {"d", "e"} ELSE {}
DirEntryNames(content, d) ==
    CASE content = "T" /\ d = "d" -> <<"e", "m">>
      [] content = "T" /\ d = "e" -> <<"n">>
      [] OTHER -> <<>>

\* The root directory, and ArchiveTreeNode::parent() of the directory d.
RootDir == ""
DirParent(content, d) == IF content = "T" /\ d = "e" THEN "d" ELSE RootDir

\* ArchiveEntry::parentDir() of the entry n.
ParentDir(content, n) ==
    CASE content = "T" /\ n \in {"e", "m"} -> "d"
      [] content = "T" /\ n = "n" -> "e"
      [] OTHER -> RootDir

Range(seq) == {seq[i] : i \in 1..Len(seq)}

-----------------------------------------------------------------------------
(* Archive objects and the helpers the handlers share.                     *)

\* opened_managed is history: the archive was created by an open with manage = true.
FreeObj == [live |-> FALSE, content |-> "none", format |-> "none",
            filename |-> NoPath, parentEntry |-> NullEntry, opened_managed |-> FALSE]

\* The handles some pointer of the state still holds, dangling ones included.
Referenced(s) ==
    {s.oa[i].archive : i \in 1..Len(s.oa)}
    \cup UNION {Range(s.oa[i].open_children) : i \in 1..Len(s.oa)}
    \cup s.um \cup {s.bm[i].a : i \in 1..Len(s.bm)}
    \cup {s.hp[h].parentEntry.a : h \in {x \in Handles : s.hp[x].live}}
    \cup {s.ba}

\* operator new: the lowest address that holds no object and that no pointer refers to.
Alloc(s) ==
    LET free == {h \in Handles : ~s.hp[h].live /\ h \notin Referenced(s)}
    IN IF free = {} THEN NullArchive ELSE CHOOSE h \in free : \A g \in free : h <= g

\* The if / else-if chain of detectors of openArchive(const wxString&).
PathFormatOrder ==
    <<"wad", "zip", "res", "dat", "lib", "pak", "bsp", "grp", "rff", "gob", "lfd", "hog",
      "adat", "wad2", "wadj", "wolf", "gzip", "bzip2", "tar", "disk", "pod", "chasm_bin", "sin">>

\* The if / else-if chain of detectors of openArchive(ArchiveEntry*).
EntryFormatOrder ==
    <<"wad", "zip", "res", "lib", "dat", "pak", "bsp", "grp", "rff", "gob", "lfd", "hog",
      "adat", "wad2", "wadj", "wolf", "gzip", "bzip2", "tar", "disk", "pod", "chasm_bin", "sin">>

\* StrUtil::endsWithCI(entry->name(), ".pod")
EndsWithPod(name) == name \in {"x.pod", "X.POD"}

\* The first format of the chain whose detector accepts.
FirstOf(order, accepted) ==
    LET hits == {i \in 1..Len(order) : order[i] \in accepted}
    IN IF hits = {} THEN "none" ELSE order[CHOOSE i \in hits : \A j \in hits : i <= j]

DetectPath(path) == FirstOf(PathFormatOrder, Accepts(FileContent(path)))

DetectEntry(content, name) ==
    FirstOf(EntryFormatOrder, {f \in Accepts(content) : f = "pod" => EndsWithPod(name)})

\* int ArchiveManager::archiveIndex(Archive*): 0-based, -1 when absent.
ArchiveIndex(oa, archive) ==
    LET hits == {i \in 1..Len(oa) : oa[i].archive = archive}
    IN IF hits = {} THEN -1 ELSE (CHOOSE i \in hits : \A j \in hits : i <= j) - 1

\* getArchive(const wxString&) without its search: no archive is ever found open.
GetArchiveByName_Absent(s, filename) == NullArchive

\* Archive* ArchiveManager::getArchive(const wxString&): exact string comparison.
GetArchiveByName(s, filename) ==
    LET hits == {i \in 1..Len(s.oa) : s.hp[s.oa[i].archive].filename = filename}
    IN IF hits = {} THEN NullArchive
       ELSE s.oa[CHOOSE i \in hits : \A j \in hits : i <= j].archive

\* Announcer::announce: dropped while the announcer is muted.  Delivery is
\* synchronous: seen keeps what a listener finds in the manager when it is called.
Announce(s, name, payload) ==
    IF s.muted THEN s
    ELSE [s EXCEPT !.notes = Append(@, <<name, payload>>),
                   !.seen = Append(@, [oa |-> s.oa, pool |-> s.pool, rf |-> s.rf,
                                        bm |-> s.bm])]

RemoveAt(seq, i) == SubSeq(seq, 1, i - 1) \o SubSeq(seq, i + 1, Len(seq))

\* vector::erase of the first element equal to x, if any.
RemoveFirst(seq, x) ==
    LET hits == {i \in 1..Len(seq) : seq[i] = x}
    IN IF hits = {} THEN seq ELSE RemoveAt(seq, CHOOSE i \in hits : \A j \in hits : i <= j)

\* The entries of a live archive, in archive order.
EntriesOf(s, archive) ==
    LET names == EntryNames(s.hp[archive].content)
    IN [i \in 1..Len(names) |-> [a |-> archive, n |-> names[i]]]

\* entry->data() of an entry of a live archive.
DataOf(s, entry) == EntryData(s.hp[entry.a].content, entry.n)

\* addRecentFile putting the path at the back of the list instead of the front.
AddRecentFile_Back(s, path) ==
    IF FileContent(path) = "none" THEN s
    ELSE LET p == ReplaceBackslash(path)
             ins == RemoveFirst(s.rf, p) \o <<p>>
             keep == IF Len(ins) > s.cv.max_recent_files
                     THEN SubSeq(ins, 1, s.cv.max_recent_files) ELSE ins
         IN Announce([s EXCEPT !.rf = keep], "recent_files_changed", -1)

\* void ArchiveManager::addRecentFile(wxString path)
AddRecentFile(s, path) ==
    IF FileContent(path) = "none" THEN s
    ELSE LET p == ReplaceBackslash(path) IN
         IF p \in Range(s.rf)
         THEN Announce([s EXCEPT !.rf = <<p>> \o RemoveFirst(@, p)], "recent_files_changed", -1)
         ELSE LET ins == <<p>> \o s.rf
                  keep == IF Len(ins) > s.cv.max_recent_files
                          THEN SubSeq(ins, 1, s.cv.max_recent_files) ELSE ins
              IN Announce([s EXCEPT !.rf = keep], "recent_files_changed", -1)

\* The loop of addRecentFiles over the paths given.
RECURSIVE AddEachRecentFile(_, _)
AddEachRecentFile(s, paths) ==
    IF paths = <<>> THEN s
    ELSE AddEachRecentFile(AddRecentFile(s, Head(paths)), Tail(paths))

\* addRecentFiles without setMuted(true): every addRecentFile announces.
AddRecentFiles_Unmuted(s, paths) ==
    LET s1 == AddEachRecentFile([s EXCEPT !.rf = <<>>], paths)
    IN Announce([s1 EXCEPT !.muted = FALSE], "recent_files_changed", -1)

\* void ArchiveManager::addRecentFiles(vector<wxString> paths)
AddRecentFiles(s, paths) ==
    LET s1 == [s EXCEPT !.muted = TRUE]
        s2 == [s1 EXCEPT !.rf = <<>>]
        s3 == AddEachRecentFile(s2, paths)
        s4 == [s3 EXCEPT !.muted = FALSE]
    IN Announce(s4, "recent_files_changed", -1)

\* void ArchiveManager::removeRecentFile(const wxString& path): compares the path as
\* given, without replacing its backslashes.
RemoveRecentFile(s, path) ==
    IF path \in Range(s.rf)
    THEN Announce([s EXCEPT !.rf = RemoveFirst(@, path)], "recent_files_changed", -1)
    ELSE s

\* deleteBookmarksInArchive without its erase: the bookmarks are left in place.
DeleteBookmarksInArchive_Keep(s, archive) == [s EXCEPT !.ret = 0]

\* bool ArchiveManager::deleteBookmarksInArchive(Archive*): reads each bookmark's
\* parent(), which is undefined once the bookmarked entry's archive is deleted.
DeleteBookmarksInArchive(s, archive) ==
    LET Keep(e) == e.a # archive
        left == SelectSeq(s.bm, Keep)
        dangling == \E i \in 1..Len(s.bm) : ~s.hp[s.bm[i].a].live
        s1 == [s EXCEPT !.bm = left, !.ub = @ \/ dangling]
    IN IF left # s.bm THEN [Announce(s1, "bookmarks_changed", -1) EXCEPT !.ret = 1]
       ELSE [s1 EXCEPT !.ret = 0]

-----------------------------------------------------------------------------
(* The handlers.  Each takes and returns the record s of everything a call *)
(* can change: oa (open_archives_), hp (heap), um (unmanaged), bm, rf,     *)
(* pool, ba (base_resource_archive_), br (base_resource), bp               *)
(* (base_resource_paths_), cv (cvars),                                     *)
(* notes (what was announced), seen (the state at each announcement), muted, ret (the return value), ub (a        *)
(* deleted object was read) and oom (the model ran out of handles).        *)

RECURSIVE AddArchive(_, _)
RECURSIVE OpenArchiveEntry(_, _, _, _)
RECURSIVE AutoOpenWads(_, _)

\* The loop of addArchive giving up at the first entry that does not open.
RECURSIVE AutoOpenWads_StopAtFailure(_, _)
AutoOpenWads_StopAtFailure(s, entries) ==
    IF entries = <<>> THEN s
    ELSE LET entry == Head(entries)
             s1 == IF "wad" \in Accepts(DataOf(s, entry))
                   THEN OpenArchiveEntry(s, entry, TRUE, TRUE) ELSE s
         IN IF "wad" \in Accepts(DataOf(s, entry)) /\ s1.ret = NullArchive
            THEN s1
            ELSE AutoOpenWads_StopAtFailure(s1, Tail(entries))

\* The loop of addArchive over archive->rootDir()->allEntries().
AutoOpenWads(s, entries) ==
    IF entries = <<>> THEN s
    ELSE LET entry == Head(entries)
             s1 == IF "wad" \in Accepts(DataOf(s, entry))
                   THEN OpenArchiveEntry(s, entry, TRUE, TRUE) ELSE s
         IN AutoOpenWads(s1, Tail(entries))

\* addArchive putting the new record in front of the list instead of behind it.
AddArchive_Front(s, archive) ==
    IF archive = NullArchive THEN [s EXCEPT !.ret = 0]
    ELSE LET n_archive == [archive |-> archive, resource |-> TRUE, open_children |-> <<>>]
             s1 == [s EXCEPT !.oa = <<n_archive>> \o @, !.um = @ \ {archive}]
             s2 == Announce(s1, "archive_added", -1)
             s3 == [s2 EXCEPT !.pool = @ \cup {archive}]
             s4 == IF s3.hp[archive].format \in {"zip", "folder"} /\ s3.cv.auto_open_wads_root
                   THEN AutoOpenWads(s3, EntriesOf(s3, archive)) ELSE s3
         IN [s4 EXCEPT !.ret = 1]

\* bool ArchiveManager::addArchive(Archive* archive)
AddArchive(s, archive) ==
    IF archive = NullArchive THEN [s EXCEPT !.ret = 0]
    ELSE LET n_archive == [archive |-> archive, resource |-> TRUE, open_children |-> <<>>]
             s1 == [s EXCEPT !.oa = Append(@, n_archive), !.um = @ \ {archive}]
             s2 == Announce(s1, "archive_added", -1)
             s3 == [s2 EXCEPT !.pool = @ \cup {archive}]
             s4 == IF s3.hp[archive].format \in {"zip", "folder"} /\ s3.cv.auto_open_wads_root
                   THEN AutoOpenWads(s3, EntriesOf(s3, archive)) ELSE s3
         IN [s4 EXCEPT !.ret = 1]

\* openArchive(ArchiveEntry*) without its search for an archive already opened from
\* the entry.
OpenArchiveEntry_NoSearch(s, entry, manage, silent) ==
    IF entry = NullEntry THEN [s EXCEPT !.ret = NullArchive]
    ELSE
    LET fmt == DetectEntry(DataOf(s, entry), entry.n)
        h == Alloc(s)
    IN IF fmt = "none" THEN [s EXCEPT !.ret = NullArchive]
       ELSE IF h = NullArchive THEN [s EXCEPT !.oom = TRUE, !.ret = NullArchive]
       ELSE IF ~Loads(DataOf(s, entry)) THEN [s EXCEPT !.ret = NullArchive]
       ELSE LET obj == [live |-> TRUE, content |-> DataOf(s, entry), format |-> fmt,
                        filename |-> s.hp[entry.a].filename \o <<"/", entry.n>>,
                        parentEntry |-> entry, opened_managed |-> manage]
                s1 == [s EXCEPT !.hp[h] = obj]
            IN IF ~manage THEN [s1 EXCEPT !.um = @ \cup {h}, !.ret = h]
               ELSE LET index_parent == IF entry.a # NullArchive
                                        THEN ArchiveIndex(s1.oa, entry.a) ELSE -1
                        s2 == IF index_parent >= 0
                              THEN [s1 EXCEPT !.oa[index_parent + 1].open_children = Append(@, h)]
                              ELSE s1
                        s3 == AddArchive(s2, h)
                        s4 == IF silent THEN s3
                              ELSE Announce(s3, "archive_opened", ArchiveIndex(s3.oa, h))
                    IN [s4 EXCEPT !.ret = h]

\* openArchive(ArchiveEntry*) recording the parent edge whether or not manage is set.
OpenArchiveEntry_EdgeAlways(s, entry, manage, silent) ==
    IF entry = NullEntry THEN [s EXCEPT !.ret = NullArchive]
    ELSE
    LET hits == {i \in 1..Len(s.oa) : s.hp[s.oa[i].archive].parentEntry = entry}
        fmt == DetectEntry(DataOf(s, entry), entry.n)
        h == Alloc(s)
    IN IF hits # {}
       THEN LET a == s.oa[CHOOSE i \in hits : \A j \in hits : i <= j].archive
                s1 == IF silent THEN s ELSE Announce(s, "archive_opened", ArchiveIndex(s.oa, a))
            IN [s1 EXCEPT !.ret = a]
       ELSE IF fmt = "none" THEN [s EXCEPT !.ret = NullArchive]
       ELSE IF h = NullArchive THEN [s EXCEPT !.oom = TRUE, !.ret = NullArchive]
       ELSE IF ~Loads(DataOf(s, entry)) THEN [s EXCEPT !.ret = NullArchive]
       ELSE LET obj == [live |-> TRUE, content |-> DataOf(s, entry), format |-> fmt,
                        filename |-> s.hp[entry.a].filename \o <<"/", entry.n>>,
                        parentEntry |-> entry, opened_managed |-> manage]
                s1 == [s EXCEPT !.hp[h] = obj]
                index_parent == IF entry.a # NullArchive
                                THEN ArchiveIndex(s1.oa, entry.a) ELSE -1
                s2 == IF index_parent >= 0
                      THEN [s1 EXCEPT !.oa[index_parent + 1].open_children = Append(@, h)]
                      ELSE s1
            IN IF ~manage THEN [s2 EXCEPT !.um = @ \cup {h}, !.ret = h]
               ELSE LET s3 == AddArchive(s2, h)
                        s4 == IF silent THEN s3
                              ELSE Announce(s3, "archive_opened", ArchiveIndex(s3.oa, h))
                    IN [s4 EXCEPT !.ret = h]

\* Archive* ArchiveManager::openArchive(ArchiveEntry* entry, bool manage, bool silent)
OpenArchiveEntry(s, entry, manage, silent) ==
    IF entry = NullEntry THEN [s EXCEPT !.ret = NullArchive]
    ELSE
    LET hits == {i \in 1..Len(s.oa) : s.hp[s.oa[i].archive].parentEntry = entry}
        fmt == DetectEntry(DataOf(s, entry), entry.n)
        h == Alloc(s)
    IN IF hits # {}
       THEN LET a == s.oa[CHOOSE i \in hits : \A j \in hits : i <= j].archive
                s1 == IF silent THEN s ELSE Announce(s, "archive_opened", ArchiveIndex(s.oa, a))
            IN [s1 EXCEPT !.ret = a]
       ELSE IF fmt = "none" THEN [s EXCEPT !.ret = NullArchive]
       ELSE IF h = NullArchive THEN [s EXCEPT !.oom = TRUE, !.ret = NullArchive]
       ELSE IF ~Loads(DataOf(s, entry)) THEN [s EXCEPT !.ret = NullArchive]
       ELSE LET obj == [live |-> TRUE, content |-> DataOf(s, entry), format |-> fmt,
                        filename |-> s.hp[entry.a].filename \o <<"/", entry.n>>,
                        parentEntry |-> entry, opened_managed |-> manage]
                s1 == [s EXCEPT !.hp[h] = obj]
            IN IF ~manage THEN [s1 EXCEPT !.um = @ \cup {h}, !.ret = h]
               ELSE LET index_parent == IF entry.a # NullArchive
                                        THEN ArchiveIndex(s1.oa, entry.a) ELSE -1
                        s2 == IF index_parent >= 0
                              THEN [s1 EXCEPT !.oa[index_parent + 1].open_children = Append(@, h)]
                              ELSE s1
                        s3 == AddArchive(s2, h)
                        s4 == IF silent THEN s3
                              ELSE Announce(s3, "archive_opened", ArchiveIndex(s3.oa, h))
                    IN [s4 EXCEPT !.ret = h]

\* openArchive(const wxString&) recording the path in the recent files before it
\* has detected the format and loaded the file.
OpenArchivePath_RecentFirst(s, filename, manage, silent) ==
    LET existing == GetArchiveByName(s, filename)
        fmt == DetectPath(filename)
        h == Alloc(s)
    IN IF existing # NullArchive
       THEN LET s1 == IF silent THEN s
                      ELSE Announce(s, "archive_opened", ArchiveIndex(s.oa, existing))
            IN [s1 EXCEPT !.ret = existing]
       ELSE LET s0 == IF manage THEN AddRecentFile(s, filename) ELSE s IN
       IF fmt = "none" THEN [s0 EXCEPT !.ret = NullArchive]
       ELSE IF h = NullArchive THEN [s0 EXCEPT !.oom = TRUE, !.ret = NullArchive]
       ELSE IF ~Loads(FileContent(filename)) THEN [s0 EXCEPT !.ret = NullArchive]
       ELSE LET obj == [live |-> TRUE, content |-> FileContent(filename), format |-> fmt,
                        filename |-> filename, parentEntry |-> NullEntry,
                        opened_managed |-> manage]
                s1 == [s0 EXCEPT !.hp[h] = obj]
            IN IF ~manage THEN [s1 EXCEPT !.um = @ \cup {h}, !.ret = h]
               ELSE LET s2 == AddArchive(s1, h)
                        s3 == IF silent THEN s2
                              ELSE Announce(s2, "archive_opened", ArchiveIndex(s2.oa, h))
                    IN [s3 EXCEPT !.ret = h]

\* Archive* ArchiveManager::openArchive(const wxString& filename, bool manage, bool silent)
\* (the files of the model hold no directory, so openDirArchive is never entered)
OpenArchivePath(s, filename, manage, silent) ==
    LET existing == GetArchiveByName(s, filename)
        fmt == DetectPath(filename)
        h == Alloc(s)
    IN IF existing # NullArchive
       THEN LET s1 == IF silent THEN s
                      ELSE Announce(s, "archive_opened", ArchiveIndex(s.oa, existing))
            IN [s1 EXCEPT !.ret = existing]
       ELSE IF fmt = "none" THEN [s EXCEPT !.ret = NullArchive]
       ELSE IF h = NullArchive THEN [s EXCEPT !.oom = TRUE, !.ret = NullArchive]
       ELSE IF ~Loads(FileContent(filename)) THEN [s EXCEPT !.ret = NullArchive]
       ELSE LET obj == [live |-> TRUE, content |-> FileContent(filename), format |-> fmt,
                        filename |-> filename, parentEntry |-> NullEntry,
                        opened_managed |-> manage]
                s1 == [s EXCEPT !.hp[h] = obj]
            IN IF ~manage THEN [s1 EXCEPT !.um = @ \cup {h}, !.ret = h]
               ELSE LET s2 == AddArchive(s1, h)
                        s3 == IF silent THEN s2
                              ELSE Announce(s2, "archive_opened", ArchiveIndex(s2.oa, h))
                        s4 == AddRecentFile(s3, filename)
                    IN [s4 EXCEPT !.ret = h]

\* Archive* ArchiveManager::newArchive(const wxString& format)
NewArchive(s, format) ==
    LET h == Alloc(s) IN
    IF format \notin {"wad", "zip"} THEN [s EXCEPT !.ret = NullArchive]
    ELSE IF h = NullArchive THEN [s EXCEPT !.oom = TRUE, !.ret = NullArchive]
    ELSE LET obj == [live |-> TRUE, content |-> IF format = "wad" THEN "EW" ELSE "EZ",
                     format |-> format, filename |-> <<"UNSAVED (", format, ")">>,
                     parentEntry |-> NullEntry, opened_managed |-> TRUE]
             s1 == AddArchive([s EXCEPT !.hp[h] = obj], h)
         IN [s1 EXCEPT !.ret = h]

RECURSIVE CloseArchive(_, _)
RECURSIVE CloseChildren(_, _)

\* The loop of closeArchive(int) over its copy of the open_children vector.
CloseChildren(s, children) ==
    IF children = <<>> THEN s
    ELSE LET ci == ArchiveIndex(s.oa, Head(children))
             s1 == IF ci >= 0 THEN CloseArchive(s, ci) ELSE s
         IN CloseChildren(s1, Tail(children))

\* closeArchive(int) announcing "archive_closing" only once the bookmarks and the
\* pool registration of the archive are gone.
CloseArchive_LateClosing(s, index) ==
    IF index < 0 \/ index >= Len(s.oa) THEN [s EXCEPT !.ret = 0]
    ELSE
    LET archive == s.oa[index + 1].archive
        s1 == DeleteBookmarksInArchive(s, archive)
        s2 == [s1 EXCEPT !.pool = @ \ {archive}]
        s3 == Announce(s2, "archive_closing", index)
        open_children == s3.oa[index + 1].open_children
        s4 == CloseChildren([s3 EXCEPT !.oa[index + 1].open_children = <<>>], open_children)
    IN IF index >= Len(s4.oa) THEN [s4 EXCEPT !.ub = TRUE, !.ret = 1]
       ELSE
       LET me == s4.oa[index + 1].archive
           parent == s4.hp[me].parentEntry
           stale == ~s4.hp[me].live \/ (parent # NullEntry /\ ~s4.hp[parent.a].live)
           pi == IF parent # NullEntry /\ parent.a # NullArchive
                 THEN ArchiveIndex(s4.oa, parent.a) ELSE -1
           s5 == IF pi >= 0
                 THEN [s4 EXCEPT !.oa[pi + 1].open_children = RemoveFirst(@, me)]
                 ELSE s4
           s6 == [s5 EXCEPT !.hp[me] = FreeObj, !.ub = @ \/ stale]
           s7 == [s6 EXCEPT !.oa = RemoveAt(@, index + 1)]
       IN [Announce(s7, "archive_closed", index) EXCEPT !.ret = 1]

\* bool ArchiveManager::closeArchive(int index)
CloseArchive(s, index) ==
    IF index < 0 \/ index >= Len(s.oa) THEN [s EXCEPT !.ret = 0]
    ELSE
    LET archive == s.oa[index + 1].archive
        s1 == Announce(s, "archive_closing", index)
        s2 == DeleteBookmarksInArchive(s1, archive)
        s3 == [s2 EXCEPT !.pool = @ \ {archive}]
        open_children == s3.oa[index + 1].open_children
        s4 == CloseChildren([s3 EXCEPT !.oa[index + 1].open_children = <<>>], open_children)
    IN \* open_archives_[index] is read again: out of range is undefined behaviour
       IF index >= Len(s4.oa) THEN [s4 EXCEPT !.ub = TRUE, !.ret = 1]
       ELSE
       LET me == s4.oa[index + 1].archive
           parent == s4.hp[me].parentEntry
           \* parent->parent() reads the entry, which died with the archive owning it
           stale == ~s4.hp[me].live \/ (parent # NullEntry /\ ~s4.hp[parent.a].live)
           pi == IF parent # NullEntry /\ parent.a # NullArchive
                 THEN ArchiveIndex(s4.oa, parent.a) ELSE -1
           s5 == IF pi >= 0
                 THEN [s4 EXCEPT !.oa[pi + 1].open_children = RemoveFirst(@, me)]
                 ELSE s4
           s6 == [s5 EXCEPT !.hp[me] = FreeObj, !.ub = @ \/ stale]
           s7 == [s6 EXCEPT !.oa = RemoveAt(@, index + 1)]
       IN [Announce(s7, "archive_closed", index) EXCEPT !.ret = 1]

\* bool ArchiveManager::closeArchive(const wxString& filename): the first record
\* whose archive has that filename, compared as given.
CloseArchiveByName(s, filename) ==
    LET hits == {a \in 1..Len(s.oa) : s.hp[s.oa[a].archive].filename = filename}
    IN IF hits = {} THEN [s EXCEPT !.ret = 0]
       ELSE CloseArchive(s, (CHOOSE a \in hits : \A b \in hits : a <= b) - 1)

\* closeArchive(Archive*) closing the last record when the archive has none.
CloseArchiveByHandle_Last(s, archive) ==
    LET index == ArchiveIndex(s.oa, archive)
    IN CloseArchive(s, IF index < 0 THEN Len(s.oa) - 1 ELSE index)

\* bool ArchiveManager::closeArchive(Archive* archive)
CloseArchiveByHandle(s, archive) ==
    LET hits == {a \in 1..Len(s.oa) : s.oa[a].archive = archive}
    IN IF hits = {} THEN [s EXCEPT !.ret = 0]
       ELSE CloseArchive(s, (CHOOSE a \in hits : \A b \in hits : a <= b) - 1)

\* void ArchiveManager::closeAll()
RECURSIVE CloseAll(_)
CloseAll(s) == IF s.oa = <<>> THEN s ELSE CloseAll(CloseArchive(s, 0))

\* void ArchiveManager::getDependentArchivesInternal(Archive*, vector<Archive*>& vec):
\* d is [vec, ub]; open_archives_[-1] is read when the archive has no record.
RECURSIVE GetDependentArchivesInternal(_, _, _)
RECURSIVE DependentsOfChildren(_, _, _)
DependentsOfChildren(s, children, d) ==
    IF children = <<>> THEN d
    ELSE LET child == Head(children)
             d1 == GetDependentArchivesInternal(s, child, [d EXCEPT !.vec = Append(@, child)])
         IN DependentsOfChildren(s, Tail(children), d1)
GetDependentArchivesInternal(s, archive, d) ==
    LET ai == ArchiveIndex(s.oa, archive)
    IN IF ai < 0 THEN [d EXCEPT !.ub = TRUE]
       ELSE DependentsOfChildren(s, s.oa[ai + 1].open_children, d)

\* vector<Archive*> ArchiveManager::getDependentArchives(Archive* archive)
GetDependentArchives(s, archive) ==
    GetDependentArchivesInternal(s, archive, [vec |-> <<>>, ub |-> FALSE])

\* Archive::entry(name): the archive's entry of that name, if it has one.
EntryByName(s, archive, name) ==
    LET es == EntriesOf(s, archive)
        hits == {i \in 1..Len(es) : es[i].n = name}
    IN IF hits = {} THEN NullEntry ELSE es[CHOOSE i \in hits : \A j \in hits : i <= j]

\* Archive::findLast(options): the archive's last entry matching the search; a
\* search is the set of entry names it matches.
FindLast(s, archive, options) ==
    LET es == EntriesOf(s, archive)
        hits == {i \in 1..Len(es) : es[i].n \in options}
    IN IF hits = {} THEN NullEntry ELSE es[CHOOSE i \in hits : \A j \in hits : i >= j]

\* Archive::findAll(options): the archive's matching entries, in archive order.
FindAll(s, archive, options) ==
    LET Match(e) == e.n \in options IN SelectSeq(EntriesOf(s, archive), Match)

\* getResourceEntry without its test of the resource flag.
RECURSIVE GetResourceEntryFrom_NoFlag(_, _, _, _)
GetResourceEntryFrom_NoFlag(s, a, name, ignore) ==
    IF a > Len(s.oa)
    THEN IF s.ba # NullArchive THEN EntryByName(s, s.ba, name) ELSE NullEntry
    ELSE IF s.oa[a].archive = ignore THEN GetResourceEntryFrom_NoFlag(s, a + 1, name, ignore)
    ELSE LET entry == EntryByName(s, s.oa[a].archive, name)
         IN IF entry # NullEntry THEN entry
            ELSE GetResourceEntryFrom_NoFlag(s, a + 1, name, ignore)

\* ArchiveEntry* ArchiveManager::getResourceEntry(const wxString& name, Archive* ignore)
RECURSIVE GetResourceEntryFrom(_, _, _, _)
GetResourceEntryFrom(s, a, name, ignore) ==
    IF a > Len(s.oa)
    THEN IF s.ba # NullArchive THEN EntryByName(s, s.ba, name) ELSE NullEntry
    ELSE IF ~s.oa[a].resource THEN GetResourceEntryFrom(s, a + 1, name, ignore)
    ELSE IF s.oa[a].archive = ignore THEN GetResourceEntryFrom(s, a + 1, name, ignore)
    ELSE LET entry == EntryByName(s, s.oa[a].archive, name)
         IN IF entry # NullEntry THEN entry
            ELSE GetResourceEntryFrom(s, a + 1, name, ignore)
GetResourceEntry(s, name, ignore) == GetResourceEntryFrom(s, 1, name, ignore)

\* ArchiveEntry* ArchiveManager::findResourceEntry(Archive::SearchOptions&, Archive* ignore)
RECURSIVE FindResourceEntryFrom(_, _, _, _)
FindResourceEntryFrom(s, a, options, ignore) ==
    IF a > Len(s.oa)
    THEN IF s.ba # NullArchive THEN FindLast(s, s.ba, options) ELSE NullEntry
    ELSE IF ~s.oa[a].resource THEN FindResourceEntryFrom(s, a + 1, options, ignore)
    ELSE IF s.oa[a].archive = ignore THEN FindResourceEntryFrom(s, a + 1, options, ignore)
    ELSE LET entry == FindLast(s, s.oa[a].archive, options)
         IN IF entry # NullEntry THEN entry
            ELSE FindResourceEntryFrom(s, a + 1, options, ignore)
FindResourceEntry(s, options, ignore) == FindResourceEntryFrom(s, 1, options, ignore)

\* vector<ArchiveEntry*> ArchiveManager::findAllResourceEntries(SearchOptions&, Archive*)
RECURSIVE FindAllOpenFrom(_, _, _, _)
FindAllOpenFrom(s, a, options, ignore) ==
    IF a > Len(s.oa) THEN <<>>
    ELSE IF ~s.oa[a].resource THEN FindAllOpenFrom(s, a + 1, options, ignore)
    ELSE IF s.oa[a].archive = ignore THEN FindAllOpenFrom(s, a + 1, options, ignore)
    ELSE FindAll(s, s.oa[a].archive, options) \o FindAllOpenFrom(s, a + 1, options, ignore)
FindAllResourceEntries(s, options, ignore) ==
    (IF s.ba # NullArchive THEN FindAll(s, s.ba, options) ELSE <<>>)
    \o FindAllOpenFrom(s, 1, options, ignore)

\* void ArchiveManager::addBookmark(ArchiveEntry* entry)
AddBookmark(s, entry) ==
    IF entry \in Range(s.bm) THEN s
    ELSE Announce([s EXCEPT !.bm = Append(@, entry)], "bookmarks_changed", -1)

\* bool ArchiveManager::deleteBookmark(ArchiveEntry* entry)
DeleteBookmark(s, entry) ==
    IF entry \in Range(s.bm)
    THEN [Announce([s EXCEPT !.bm = RemoveFirst(@, entry)], "bookmarks_changed", -1)
            EXCEPT !.ret = 1]
    ELSE [s EXCEPT !.ret = 0]

\* bool ArchiveManager::deleteBookmark(unsigned index)
DeleteBookmarkAt(s, index) ==
    IF index >= Len(s.bm) THEN [s EXCEPT !.ret = 0]
    ELSE [Announce([s EXCEPT !.bm = RemoveAt(@, index + 1)], "bookmarks_changed", -1)
            EXCEPT !.ret = 1]

\* setArchiveResource updating the resource manager whether or not the flag changed.
SetArchiveResource_Always(s, archive, resource) ==
    LET index == ArchiveIndex(s.oa, archive) IN
    IF index < 0 THEN s
    ELSE LET s1 == [s EXCEPT !.oa[index + 1].resource = resource]
         IN IF resource THEN [s1 EXCEPT !.pool = @ \cup {archive}] ELSE s1

\* void ArchiveManager::setArchiveResource(Archive* archive, bool resource)
SetArchiveResource(s, archive, resource) ==
    LET index == ArchiveIndex(s.oa, archive) IN
    IF index < 0 THEN s
    ELSE LET was_resource == s.oa[index + 1].resource
             s1 == [s EXCEPT !.oa[index + 1].resource = resource]
         IN IF resource /\ ~was_resource THEN [s1 EXCEPT !.pool = @ \cup {archive}]
            ELSE IF ~resource /\ was_resource THEN [s1 EXCEPT !.pool = @ \ {archive}]
            ELSE s1

\* bool ArchiveManager::addBaseResourcePath(const wxString& path)
AddBaseResourcePath(s, path) ==
    IF FileContent(path) = "none" THEN [s EXCEPT !.ret = 0]
    ELSE IF path \in Range(s.bp) THEN [s EXCEPT !.ret = 0]
    ELSE [Announce([s EXCEPT !.bp = Append(@, path)], "base_resource_path_added", -1)
            EXCEPT !.ret = 1]

\* openBaseResource without its test that the index is already loaded.
OpenBaseResource_Reload(s, index) ==
    LET s1 == IF s.ba # NullArchive
              THEN [s EXCEPT !.pool = @ \ {s.ba}, !.hp[s.ba] = FreeObj, !.ba = NullArchive]
              ELSE s
    IN IF index < 0 \/ index >= Len(s1.bp)
       THEN [Announce([s1 EXCEPT !.br = -1], "base_resource_changed", -1) EXCEPT !.ret = 0]
       ELSE
       LET filename == s1.bp[index + 1]
           content == FileContent(filename)
           fmt == IF "wad" \in Accepts(content) THEN "wad"
                  ELSE IF "zip" \in Accepts(content) THEN "zip" ELSE "none"
           h == Alloc(s1)
       IN IF fmt = "none" THEN [s1 EXCEPT !.ret = 0]
          ELSE IF h = NullArchive THEN [s1 EXCEPT !.oom = TRUE, !.ret = 0]
          ELSE IF Loads(content)
          THEN LET obj == [live |-> TRUE, content |-> content, format |-> fmt,
                           filename |-> filename, parentEntry |-> NullEntry,
                           opened_managed |-> FALSE]
                   s2 == [s1 EXCEPT !.hp[h] = obj, !.ba = h, !.br = index,
                                    !.pool = @ \cup {h}]
               IN [Announce(s2, "base_resource_changed", -1) EXCEPT !.ret = 1]
          ELSE [Announce(s1, "base_resource_changed", -1) EXCEPT !.ret = 0]

\* bool ArchiveManager::openBaseResource(int index)
OpenBaseResource(s, index) ==
    IF s.ba # NullArchive /\ s.br = index THEN [s EXCEPT !.ret = 1]
    ELSE
    LET s1 == IF s.ba # NullArchive
              THEN [s EXCEPT !.pool = @ \ {s.ba}, !.hp[s.ba] = FreeObj, !.ba = NullArchive]
              ELSE s
    IN IF index < 0 \/ index >= Len(s1.bp)
       THEN [Announce([s1 EXCEPT !.br = -1], "base_resource_changed", -1) EXCEPT !.ret = 0]
       ELSE
       LET filename == s1.bp[index + 1]
           content == FileContent(filename)
           fmt == IF "wad" \in Accepts(content) THEN "wad"
                  ELSE IF "zip" \in Accepts(content) THEN "zip" ELSE "none"
           h == Alloc(s1)
       IN IF fmt = "none" THEN [s1 EXCEPT !.ret = 0]
          ELSE IF h = NullArchive THEN [s1 EXCEPT !.oom = TRUE, !.ret = 0]
          ELSE IF Loads(content)
          THEN LET obj == [live |-> TRUE, content |-> content, format |-> fmt,
                           filename |-> filename, parentEntry |-> NullEntry,
                           opened_managed |-> FALSE]
                   s2 == [s1 EXCEPT !.hp[h] = obj, !.ba = h, !.br = index,
                                    !.pool = @ \cup {h}]
               IN [Announce(s2, "base_resource_changed", -1) EXCEPT !.ret = 1]
          ELSE [Announce(s1, "base_resource_changed", -1) EXCEPT !.ret = 0]

\* removeBaseResourcePath without its adjustment of base_resource.
RemoveBaseResourcePath_NoShift(s, index) ==
    IF index >= Len(s.bp) THEN s
    ELSE LET s1 == IF index = s.br THEN OpenBaseResource(s, -1) ELSE s
             s2 == [s1 EXCEPT !.bp = RemoveAt(@, index + 1)]
         IN Announce(s2, "base_resource_path_removed", -1)

\* void ArchiveManager::removeBaseResourcePath(unsigned index)
RemoveBaseResourcePath(s, index) ==
    IF index >= Len(s.bp) THEN s
    ELSE LET s1 == IF index = s.br THEN OpenBaseResource(s, -1)
                   ELSE IF s.br > index THEN [s EXCEPT !.br = s.br - 1]
                   ELSE s
             s2 == [s1 EXCEPT !.bp = RemoveAt(@, index + 1)]
         IN Announce(s2, "base_resource_path_removed", -1)

\* The walk of deleteBookmarksInDir from anode up to the root directory.
RECURSIVE WalkFinds(_, _, _)
WalkFinds(content, anode, d) ==
    IF anode = RootDir THEN FALSE
    ELSE IF anode = d THEN TRUE
    ELSE WalkFinds(content, DirParent(content, anode), d)

\* onAnnouncement re-broadcasting whatever the announcer is.
OnAnnouncement_Untracked(s, announcer, event_name) ==
    LET index == ArchiveIndex(s.oa, announcer)
        s1 == IF event_name = "saved" THEN Announce(s, "archive_saved", index) ELSE s
    IN IF event_name \in {"modified", "entry_modified"}
       THEN Announce(s1, "archive_modified", index)
       ELSE s1

\* void ArchiveManager::onAnnouncement(Announcer* announcer, const wxString& event_name,
\*                                     MemChunk& event_data)
OnAnnouncement(s, announcer, event_name) ==
    LET index == ArchiveIndex(s.oa, announcer) IN
    IF index >= 0
    THEN LET s1 == IF event_name = "saved" THEN Announce(s, "archive_saved", index) ELSE s
         IN IF event_name \in {"modified", "entry_modified"}
            THEN Announce(s1, "archive_modified", index)
            ELSE s1
    ELSE s

\* bool ArchiveManager::deleteBookmarksInDir(ArchiveTreeNode* node); a node is
\* [a |-> its archive, d |-> its directory], and node->dirEntry() is the entry named d.
DeleteBookmarksInDir(s, node) ==
    LET archive == node.a
        s1 == DeleteBookmark(s, [a |-> node.a, n |-> node.d])
        removed == s1.ret = 1
        Keep(e) == ~(e.a = archive
                     /\ WalkFinds(s.hp[archive].content,
                                  ParentDir(s.hp[archive].content, e.n), node.d))
        left == SelectSeq(s1.bm, Keep)
        dangling == \E i \in 1..Len(s1.bm) : ~s.hp[s1.bm[i].a].live
        s2 == [s1 EXCEPT !.bm = left, !.ub = @ \/ dangling]
    IN IF removed \/ left # s1.bm
       THEN [Announce(s2, "bookmarks_changed", -1) EXCEPT !.ret = 1]
       ELSE [s2 EXCEPT !.ret = 0]

-----------------------------------------------------------------------------
(* The state machine.                                                      *)

\* The state as the handlers take it, at the start of a call.
Cur ==
    [oa |-> open_archives, hp |-> heap, um |-> unmanaged, bm |-> bookmarks,
     rf |-> recent_files, pool |-> pool, ba |-> base_resource_archive,
     br |-> base_resource, bp |-> base_resource_paths, cv |-> cvars,
     notes |-> <<>>, seen |-> <<>>, muted |-> FALSE,
     ret |-> 0, ub |-> FALSE, oom |-> FALSE]

\* The call returns with the state r.  A call that read a deleted object either went
\* on with what the freed memory still held (r) or the process aborted.
Return(r) ==
    /\ ~crashed
    /\ ~r.oom
    /\ Cardinality(r.um) <= MaxUnmanaged
    /\ Len(r.bm) <= MaxBookmarks
    /\ \E abort \in (IF r.ub THEN BOOLEAN ELSE {FALSE}) :
         LET f == IF abort THEN Cur ELSE r IN
         /\ crashed' = abort
         /\ open_archives' = f.oa
         /\ heap' = f.hp
         /\ unmanaged' = f.um
         /\ bookmarks' = f.bm
         /\ recent_files' = f.rf
         /\ pool' = f.pool
         /\ base_resource_archive' = f.ba
         /\ base_resource' = f.br
         /\ base_resource_paths' = f.bp
         /\ cvars' = f.cv

\* The archives whose entries a caller can hold a pointer to.
Live == {h \in Handles : heap[h].live}
Tracked == {open_archives[i].archive : i \in 1..Len(open_archives)}
LiveEntries == UNION {Range(EntriesOf(Cur, h)) : h \in Live}

InitVars ==
    /\ open_archives = <<>>
    /\ heap = [h \in Handles |-> FreeObj]
    /\ unmanaged = {}
    /\ bookmarks = <<>>
    /\ recent_files = <<>>
    /\ base_resource_paths = <<>>
    /\ base_resource_archive = NullArchive
    /\ base_resource = -1
    /\ pool = {}
    /\ crashed = FALSE

Init ==
    /\ InitVars
    /\ cvars \in {[auto_open_wads_root |-> b, max_recent_files |-> 0] : b \in BOOLEAN}

\* The calls, over the arguments given.  What a call announces and returns is not
\* part of the state: the claims read it off the handler's result.
OpenPath(paths, manages) ==
    \E path \in paths, manage \in manages :
        Return(OpenArchivePath(Cur, path, manage, FALSE))

OpenEntry(entries, manages) ==
    \E entry \in entries, manage \in manages :
        Return(OpenArchiveEntry(Cur, entry, manage, FALSE))

\* addArchive is handed an archive the caller owns, or nullptr.
AddArchiveCall ==
    \E archive \in unmanaged \cup {NullArchive} :
        Return(AddArchive(Cur, archive))

NewArchiveCall(formats) ==
    \E format \in formats :
        Return(NewArchive(Cur, format))

CloseIndex ==
    \E index \in -1..Len(open_archives) :
        Return(CloseArchive(Cur, index))

CloseAllCall ==
    Return(CloseAll(Cur))

\* The registry under every way of opening, adding and closing an archive.
Next ==
    \/ OpenPath({PathZ, PathZw, PathBad, PathFail}, {TRUE})
    \/ OpenPath({PathZ}, {FALSE})
    \/ OpenEntry(LiveEntries \cup {NullEntry}, BOOLEAN)
    \/ AddArchiveCall
    \/ NewArchiveCall({"wad", "grp"})
    \/ CloseIndex
    \/ CloseAllCall

Spec == Init /\ [][Next]_vars

TrackedEntries == UNION {Range(EntriesOf(Cur, h)) : h \in Tracked}

AddBookmarkCall(entries) ==
    \E entry \in entries : Return(AddBookmark(Cur, entry))

DeleteBookmarkCall ==
    \E entry \in Range(bookmarks) : Return(DeleteBookmark(Cur, entry))

DeleteBookmarkAtCall ==
    \E index \in 0..Len(bookmarks) : Return(DeleteBookmarkAt(Cur, index))

\* Managed opens and bookmarks on the entries of what they opened, then closeAll.
NextManaged ==
    \/ OpenPath({PathK, PathBad}, {TRUE})
    \/ OpenEntry(TrackedEntries, {TRUE})
    \/ NewArchiveCall({"wad"})
    \/ AddBookmarkCall(TrackedEntries)
    \/ CloseIndex
    \/ CloseAllCall

InitManaged ==
    /\ InitVars
    /\ cvars \in {[auto_open_wads_root |-> b, max_recent_files |-> 0] : b \in BOOLEAN}

SpecManaged == InitManaged /\ [][NextManaged]_vars

AddBaseResourcePathCall(paths) ==
    \E path \in paths : Return(AddBaseResourcePath(Cur, path))

OpenBaseResourceCall ==
    \E index \in -1..Len(base_resource_paths) : Return(OpenBaseResource(Cur, index))

\* Bookmarks on the entries of any archive a caller can reach, while archives are
\* opened and closed and the base resource is selected.
NextBookmarks ==
    \/ OpenPath({PathZ}, BOOLEAN)
    \/ OpenEntry(LiveEntries, BOOLEAN)
    \/ CloseIndex
    \/ AddBaseResourcePathCall({PathB, PathZ})
    \/ OpenBaseResourceCall
    \/ AddBookmarkCall(LiveEntries)
    \/ DeleteBookmarkCall
    \/ DeleteBookmarkAtCall

InitBookmarks ==
    /\ InitVars
    /\ cvars = [auto_open_wads_root |-> FALSE, max_recent_files |-> 0]

SpecBookmarks == InitBookmarks /\ [][NextBookmarks]_vars

\* The names and searches the lookups are asked for, and the archives they are told
\* to ignore: any pointer, nullptr included.
Names == {"l", "m", "f", "y", "q"}
Searches == {{"l"}, {"l", "m", "v"}, {"f", "m"}, {"q"}}
Ignorable == Handles \cup {NullArchive}

SetArchiveResourceCall ==
    \E archive \in Handles, resource \in BOOLEAN :
        Return(SetArchiveResource(Cur, archive, resource))

\* The lookups change nothing: they return an entry or a list of entries.
GetResourceEntryCall ==
    \E name \in Names, ignore \in Ignorable :
        /\ GetResourceEntry(Cur, name, ignore) \in LiveEntries \cup {NullEntry}
        /\ Return(Cur)

FindResourceEntryCall ==
    \E options \in Searches, ignore \in Ignorable :
        /\ FindResourceEntry(Cur, options, ignore) \in LiveEntries \cup {NullEntry}
        /\ Return(Cur)

FindAllResourceEntriesCall ==
    \E options \in Searches, ignore \in Ignorable :
        /\ Range(FindAllResourceEntries(Cur, options, ignore)) \subseteq LiveEntries
        /\ Return(Cur)

\* Managed archives with their resource flags, a base resource, and the lookups.
NextResolve ==
    \/ OpenPath({PathZ, PathK}, {TRUE})
    \/ OpenEntry(TrackedEntries, {TRUE})
    \/ CloseIndex
    \/ SetArchiveResourceCall
    \/ AddBaseResourcePathCall({PathB})
    \/ OpenBaseResourceCall
    \/ GetResourceEntryCall
    \/ FindResourceEntryCall
    \/ FindAllResourceEntriesCall

SpecResolve == InitBookmarks /\ [][NextResolve]_vars

\* The paths the recent-file calls are given, and the lists of them.
RecentPaths == {PathZ, PathZw, PathK, PathB, PathBad, PathNone}
RecentPathLists == UNION {[1..n -> RecentPaths] : n \in 0..MaxPaths}

AddRecentFileCall ==
    \E path \in RecentPaths : Return(AddRecentFile(Cur, path))

RemoveRecentFileCall ==
    \E path \in RecentPaths : Return(RemoveRecentFile(Cur, path))

AddRecentFilesCall ==
    \E paths \in RecentPathLists : Return(AddRecentFiles(Cur, paths))

\* The max_recent_files CVAR is assigned a new value; nothing else runs.
SetMaxRecentFiles ==
    \E n \in 0..MaxRecent :
        Return([Cur EXCEPT !.cv.max_recent_files = n])

\* The recent-file list under its three calls and changes of its configured maximum.
NextRecent ==
    \/ AddRecentFileCall
    \/ RemoveRecentFileCall
    \/ AddRecentFilesCall
    \/ SetMaxRecentFiles

InitRecent ==
    /\ InitVars
    /\ cvars \in {[auto_open_wads_root |-> FALSE, max_recent_files |-> n] : n \in 0..MaxRecent}

SpecRecent == InitRecent /\ [][NextRecent]_vars

RemoveBaseResourcePathCall ==
    \E index \in 0..Len(base_resource_paths) : Return(RemoveBaseResourcePath(Cur, index))

\* The base resource paths and the selection among them: a wad, a zip, a file of
\* neither format, a wad that fails to load, and a path that names no file.
NextBase ==
    \/ AddBaseResourcePathCall({PathB, PathZ, PathBad, PathFail, PathNone})
    \/ RemoveBaseResourcePathCall
    \/ OpenBaseResourceCall

SpecBase == InitBookmarks /\ [][NextBase]_vars

\* Every entry of a tracked archive, those inside its directories included, and every
\* directory node of a tracked archive, the root included.
TreeEntries ==
    TrackedEntries \cup
    UNION {UNION {{[a |-> h, n |-> x] : x \in Range(DirEntryNames(heap[h].content, d))} :
                    d \in DirNames(heap[h].content)} : h \in Tracked}
DirNodes ==
    UNION {{[a |-> h, d |-> d] : d \in DirNames(heap[h].content) \cup {RootDir}} :
              h \in Tracked}

DeleteBookmarksInArchiveCall ==
    \E archive \in Handles : Return(DeleteBookmarksInArchive(Cur, archive))

DeleteBookmarksInDirCall ==
    \E node \in DirNodes : Return(DeleteBookmarksInDir(Cur, node))

\* Bookmarks on the entries of a zip with directories and of a zip without, and
\* their removal one by one, by archive and by directory.
NextDirs ==
    \/ OpenPath({PathD, PathZ}, {TRUE})
    \/ CloseIndex
    \/ AddBookmarkCall(TreeEntries)
    \/ DeleteBookmarkCall
    \/ DeleteBookmarksInArchiveCall
    \/ DeleteBookmarksInDirCall

SpecDirs == InitBookmarks /\ [][NextDirs]_vars

\* The paths and archives the closes by name and by handle are given.
OpenPaths == {PathZ, PathB, PathBad, PathFail}
ClosePaths == OpenPaths \cup {PathZw, PathNone}

CloseNameCall ==
    \E filename \in ClosePaths : Return(CloseArchiveByName(Cur, filename))

CloseHandleCall ==
    \E archive \in Handles \cup {NullArchive} : Return(CloseArchiveByHandle(Cur, archive))

\* The entries named l: one in every archive.
LumpEntries == {e \in TrackedEntries : e.n = "l"}

\* Opens that succeed and opens that fail, managed or not, and the three closes,
\* with bookmarks and a recent-file list to be left alone.
NextLifecycle ==
    \/ OpenPath(OpenPaths, {TRUE})
    \/ OpenPath({PathZ}, {FALSE})
    \/ OpenEntry(LiveEntries \cup {NullEntry}, BOOLEAN)
    \/ AddBookmarkCall(LumpEntries)
    \/ CloseIndex
    \/ CloseNameCall
    \/ CloseHandleCall

InitLifecycle ==
    /\ InitVars
    /\ cvars = [auto_open_wads_root |-> FALSE, max_recent_files |-> 2]

SpecLifecycle == InitLifecycle /\ [][NextLifecycle]_vars

\* The events an archive announces, and the announcers the registry can hear of:
\* any archive object, tracked or not, and a pointer to none.
ArchiveEvents == {"saved", "modified", "entry_modified", "closed"}

OnAnnouncementCall ==
    \E announcer \in Handles \cup {NullArchive}, event_name \in ArchiveEvents :
        Return(OnAnnouncement(Cur, announcer, event_name))

\* Archives nested in archives: a zip in a zip, wads in zips, opened managed or not,
\* with the auto-mount of root wads on or off, and the archives announcing events.
NextNested ==
    \/ OpenPath({PathO, PathZ}, {TRUE})
    \/ OpenPath({PathZ}, {FALSE})
    \/ OpenEntry(LiveEntries, BOOLEAN)
    \/ AddArchiveCall
    \/ CloseIndex
    \/ OnAnnouncementCall

SpecNested == Init /\ [][NextNested]_vars

\* Zips with wads at their root, one of them damaged, opened by path or from an entry
\* of another zip, with the auto-mount of root wads on or off.
MountPaths == {PathM, PathZ, PathO, PathFail}

NextMount ==
    \/ OpenPath(MountPaths, {TRUE})
    \/ OpenPath({PathZ}, {FALSE})
    \/ OpenEntry(LiveEntries, BOOLEAN)
    \/ AddArchiveCall
    \/ CloseIndex

SpecMount == Init /\ [][NextMount]_vars

\* The same bytes identified from a file and from entries of different names.
FormatPaths == {PathP, PathQ, PathZ, PathBad}

NextFormats ==
    \/ OpenPath(FormatPaths, BOOLEAN)
    \/ OpenEntry(LiveEntries, BOOLEAN)
    \/ AddArchiveCall
    \/ CloseIndex

SpecFormats == InitBookmarks /\ [][NextFormats]_vars

-----------------------------------------------------------------------------
(* What the claims speak of.                                               *)

\* The handler's input for a second call made right after the call that returned r.
After(r) == [r EXCEPT !.notes = <<>>, !.seen = <<>>, !.ret = 0]

\* How many times the call announced the event.
Count(notes, name) == Cardinality({i \in 1..Len(notes) : notes[i][1] = name})

RegistryOf(s) == {s.oa[i].archive : i \in 1..Len(s.oa)}
ChildListsOf(s) == UNION {Range(s.oa[i].open_children) : i \in 1..Len(s.oa)}

\* The tracked archives opened, with manage = true, from an entry of an archive of
\* the set, or of such an archive, and so on.
RECURSIVE Below(_, _)
Below(set, n) ==
    IF n = 0 THEN set
    ELSE Below(set \cup {x \in Tracked : heap[x].opened_managed
                                        /\ heap[x].parentEntry.a \in set}, n - 1)
DescendantsOf(archive) == Below({archive}, MaxHandles) \ {archive}

\* C1: after close(P) on a tracked archive P returns true, P and every archive opened
\* managed from an entry of P or of a descendant of P are gone from the registry, and
\* no remaining child list holds a closed handle.
C1_CloseCascades ==
    \A i \in 1..Len(open_archives) :
        LET P == open_archives[i].archive
            r == CloseArchive(Cur, i - 1)
            closed == Tracked \ RegistryOf(r)
        IN (~crashed /\ r.ret = 1 /\ ~r.ub) =>
              /\ P \notin RegistryOf(r)
              /\ DescendantsOf(P) \cap RegistryOf(r) = {}
              /\ ChildListsOf(r) \cap closed = {}

\* C2: every record's child list is exactly the set of tracked archives whose
\* back-reference entry belongs to the record's archive.
C2_ChildListExact ==
    \A i \in 1..Len(open_archives) :
        LET rec == open_archives[i] IN
        /\ Range(rec.open_children) =
              {x \in Tracked : heap[x].parentEntry.a = rec.archive}
        /\ Cardinality(Range(rec.open_children)) = Len(rec.open_children)

\* C3: the archive owning the entry a tracked archive was opened from is itself
\* tracked, and alive, for as long as the child is tracked.
C3_ParentTracked ==
    \A x \in Tracked :
        heap[x].parentEntry # NullEntry =>
            /\ heap[x].parentEntry.a \in Tracked
            /\ heap[heap[x].parentEntry.a].live

\* The archive was opened from a file on disk.
DiskBacked(h) == heap[h].parentEntry = NullEntry /\ FileContent(heap[h].filename) # "none"

\* C5: at most one record per archive handle, and at most one record per normalized
\* path among the archives opened from a file.
C5_OneRecordPerPath ==
    \A i, j \in 1..Len(open_archives) :
        LET a == open_archives[i].archive
            b == open_archives[j].archive
        IN i # j =>
              /\ a # b
              /\ (DiskBacked(a) /\ DiskBacked(b)) =>
                    ReplaceBackslash(heap[a].filename) # ReplaceBackslash(heap[b].filename)

\* C4 as stated: a path that is not open, opened twice with manage = true, gives the
\* same handle both times, one record, and one "archive_added" over the two calls.
C4_OneAddedInTotal ==
    \A path \in {PathZ, PathZw, PathK, PathB}, silent1 \in BOOLEAN, silent2 \in BOOLEAN :
        LET r1 == OpenArchivePath(Cur, path, TRUE, silent1)
            r2 == OpenArchivePath(After(r1), path, TRUE, silent2)
        IN (GetArchiveByName(Cur, path) = NullArchive /\ r1.ret # NullArchive /\ ~r1.oom) =>
              /\ r2.ret = r1.ret
              /\ Cardinality({i \in 1..Len(r2.oa) : r2.oa[i].archive = r1.ret}) = 1
              /\ Count(r1.notes, "archive_added") + Count(r2.notes, "archive_added") = 1

\* C4 as amended: the same handle both times and one record for it; the second call
\* adds no record and announces no "archive_added"; the first announces one for the
\* path's archive and one more for each archive it mounts from the archive's root,
\* which is none when auto_open_wads_root is off.
C4_SecondOpenAddsNothing ==
    \A path \in {PathZ, PathZw, PathK, PathB}, silent1 \in BOOLEAN, silent2 \in BOOLEAN :
        LET r1 == OpenArchivePath(Cur, path, TRUE, silent1)
            r2 == OpenArchivePath(After(r1), path, TRUE, silent2)
        IN (GetArchiveByName(Cur, path) = NullArchive /\ r1.ret # NullArchive /\ ~r1.oom) =>
              /\ r2.ret = r1.ret
              /\ Cardinality({i \in 1..Len(r2.oa) : r2.oa[i].archive = r1.ret}) = 1
              /\ r2.oa = r1.oa
              /\ Count(r2.notes, "archive_added") = 0
              /\ Count(r1.notes, "archive_added") = Len(r1.oa) - Len(open_archives)
              /\ (~cvars.auto_open_wads_root => Count(r1.notes, "archive_added") = 1)

\* The path's archive is tracked with the wad mounted from its root, and opening the
\* path again returns it.
C4_Witness ==
    \E i \in 1..Len(open_archives) :
        LET a == open_archives[i].archive IN
        /\ heap[a].filename = PathZ
        /\ open_archives[i].open_children # <<>>
        /\ cvars.auto_open_wads_root
        /\ OpenArchivePath(Cur, PathZ, TRUE, FALSE).ret = a
        /\ Count(OpenArchivePath(Cur, PathZ, TRUE, FALSE).notes, "archive_added") = 0

\* C6: after managed opens and bookmark additions, closeAll ends with an empty
\* registry and no bookmark on an entry of an archive that was tracked; it closes
\* each tracked archive once and reads no deleted object.
C6_CloseAllEmpties ==
    LET r == CloseAll(Cur) IN
    /\ r.oa = <<>>
    /\ \A i \in 1..Len(r.bm) : r.bm[i].a \notin Tracked
    /\ \A h \in Tracked : ~r.hp[h].live
    /\ Count(r.notes, "archive_closed") = Len(open_archives)
    /\ ~r.ub

\* Three nested archives are tracked, two entries inside them are bookmarked, and
\* closeAll empties the registry and the bookmark list.
C6_Witness ==
    /\ \E x, y \in Tracked : heap[x].parentEntry.a = y /\ heap[y].parentEntry.a \in Tracked
    /\ Len(bookmarks) = MaxBookmarks
    /\ CloseAll(Cur).oa = <<>>
    /\ CloseAll(Cur).bm = <<>>

\* C7: every bookmark's entry belongs to an archive that is tracked in the registry.
C7_BookmarksTracked ==
    \A i \in 1..Len(bookmarks) : bookmarks[i].a \in Tracked

\* The records a lookup may search, and whether an archive holds a match.
Eligible(ignore) ==
    {i \in 1..Len(open_archives) :
        open_archives[i].resource /\ open_archives[i].archive # ignore}
HasName(archive, name) == name \in Range(EntryNames(heap[archive].content))
HasMatch(archive, options) == Range(EntryNames(heap[archive].content)) \cap options # {}
FlagFalse(archive) ==
    \E i \in 1..Len(open_archives) :
        open_archives[i].archive = archive /\ ~open_archives[i].resource
Lowest(set) == CHOOSE i \in set : \A j \in set : i <= j

\* C8: findFirst, by name or by search, never returns an entry of an archive whose
\* resource flag is false, nor of the archive passed as excluding.
C8_FindFirstExcludes ==
    \A ignore \in Ignorable :
        /\ \A name \in Names :
              LET e == GetResourceEntry(Cur, name, ignore)
              IN e # NullEntry => (e.a # ignore /\ ~FlagFalse(e.a))
        /\ \A options \in Searches :
              LET e == FindResourceEntry(Cur, options, ignore)
              IN e # NullEntry => (e.a # ignore /\ ~FlagFalse(e.a))

\* C9: findFirst returns the match of the earliest-registered eligible archive that
\* holds one, the base archive's match only when no eligible open archive holds one,
\* and nothing only when neither does.
C9_FindFirstOrder ==
    \A ignore \in Ignorable :
        /\ \A name \in Names :
              LET e == GetResourceEntry(Cur, name, ignore)
                  with == {i \in Eligible(ignore) : HasName(open_archives[i].archive, name)}
              IN IF with # {} THEN e = [a |-> open_archives[Lowest(with)].archive, n |-> name]
                 ELSE IF base_resource_archive # NullArchive
                         /\ HasName(base_resource_archive, name)
                 THEN e = [a |-> base_resource_archive, n |-> name]
                 ELSE e = NullEntry
        /\ \A options \in Searches :
              LET e == FindResourceEntry(Cur, options, ignore)
                  with == {i \in Eligible(ignore) : HasMatch(open_archives[i].archive, options)}
              IN IF with # {}
                 THEN e.a = open_archives[Lowest(with)].archive /\ e.n \in options
                 ELSE IF base_resource_archive # NullArchive
                         /\ HasMatch(base_resource_archive, options)
                 THEN e.a = base_resource_archive /\ e.n \in options
                 ELSE e = NullEntry

\* The first registered archive holds "l" but is no resource, so the lookup returns
\* the second archive's "l"; "f" is found in the base archive alone; "q" nowhere.
C9_Witness ==
    /\ Len(open_archives) >= 2
    /\ ~open_archives[1].resource
    /\ HasName(open_archives[1].archive, "l")
    /\ GetResourceEntry(Cur, "l", NullArchive).a = open_archives[2].archive
    /\ base_resource_archive # NullArchive
    /\ GetResourceEntry(Cur, "f", NullArchive).a = base_resource_archive
    /\ FindResourceEntry(Cur, {"f", "m"}, open_archives[2].archive).a = base_resource_archive
    /\ GetResourceEntry(Cur, "q", NullArchive) = NullEntry

\* The matches of the eligible open archives, in registration order.
RECURSIVE OpenMatches(_, _, _)
OpenMatches(i, options, ignore) ==
    IF i > Len(open_archives) THEN <<>>
    ELSE (IF i \in Eligible(ignore)
          THEN FindAll(Cur, open_archives[i].archive, options) ELSE <<>>)
         \o OpenMatches(i + 1, options, ignore)
BaseMatches(options) ==
    IF base_resource_archive # NullArchive
    THEN FindAll(Cur, base_resource_archive, options) ELSE <<>>

\* C10: findAllMatches returns the base archive's matches, then each eligible open
\* archive's in registration order; none of them comes from an archive whose
\* resource flag is false or that is the excluding argument.
C10_FindAllOrderExcludes ==
    \A ignore \in Ignorable, options \in Searches :
        LET all == FindAllResourceEntries(Cur, options, ignore) IN
        /\ all = BaseMatches(options) \o OpenMatches(1, options, ignore)
        /\ \A k \in 1..Len(all) : all[k].a # ignore /\ ~FlagFalse(all[k].a)

\* No path occurs twice in the list.
NoDuplicates(seq) == \A i, j \in 1..Len(seq) : i # j => seq[i] # seq[j]

\* C11: in every reachable state the recent-file list holds no path twice and is no
\* longer than the configured maximum, also after the maximum has been lowered.
C11_RecentBounded ==
    /\ NoDuplicates(recent_files)
    /\ Len(recent_files) <= cvars.max_recent_files

\* The list with one path left out, the others in their order.
Without(seq, p) == LET Other(x) == x # p IN SelectSeq(seq, Other)
Min(a, b) == IF a < b THEN a ELSE b

\* What C12 says of one touch, for a path the list holds or does not hold.
TouchMovesOrInserts(path) ==
    LET p == ReplaceBackslash(path)
        r == AddRecentFile(Cur, path)
    IN IF p \in Range(recent_files)
       THEN /\ r.rf[1] = p
            /\ Len(r.rf) = Len(recent_files)
            /\ Without(r.rf, p) = Without(recent_files, p)
       ELSE /\ Len(r.rf) = Min(Len(recent_files) + 1, cvars.max_recent_files)
            /\ r.rf = SubSeq(<<p>> \o recent_files, 1, Len(r.rf))

\* C12 as stated: touch on a path in the list moves it to the front, keeps the length
\* and the order of the others; touch on an absent path inserts it at the front and
\* drops only the tail beyond the configured maximum.
C12_TouchAnyPath ==
    \A path \in RecentPaths : TouchMovesOrInserts(path)

\* C12 as amended: the same, for a path that names an existing file or directory;
\* touch on a path that names none changes nothing and announces nothing.
C12_TouchExistingPath ==
    \A path \in RecentPaths :
        IF FileContent(path) # "none" THEN TouchMovesOrInserts(path)
        ELSE /\ AddRecentFile(Cur, path).rf = recent_files
             /\ AddRecentFile(Cur, path).notes = <<>>

\* The list is full with three paths; touching the last moves it to the front, and
\* touching an absent one drops the last.
C12_Witness ==
    /\ Len(recent_files) = 3
    /\ cvars.max_recent_files = 3
    /\ AddRecentFile(Cur, recent_files[3]).rf = <<recent_files[3], recent_files[1], recent_files[2]>>
    /\ \E path \in RecentPaths :
          /\ FileContent(path) # "none"
          /\ ReplaceBackslash(path) \notin Range(recent_files)
          /\ AddRecentFile(Cur, path).rf = <<ReplaceBackslash(path), recent_files[1], recent_files[2]>>

\* Touching each path in order, starting from the list given.
RECURSIVE TouchEach(_, _)
TouchEach(s, paths) ==
    IF paths = <<>> THEN s ELSE TouchEach(AddRecentFile(s, Head(paths)), Tail(paths))

\* C13 as stated: replaceAll announces "recent_files_changed" once whatever the number
\* of paths, the list becomes what touching each path in order from an empty list
\* gives, and the last path given ends at the front.
C13_ReplaceAllLastInFront ==
    \A paths \in RecentPathLists :
        LET r == AddRecentFiles(Cur, paths) IN
        /\ r.notes = << <<"recent_files_changed", -1>> >>
        /\ r.rf = TouchEach([Cur EXCEPT !.rf = <<>>], paths).rf
        /\ paths # <<>> =>
              (r.rf # <<>> /\ r.rf[1] = ReplaceBackslash(paths[Len(paths)]))

\* C13 as amended: one announcement and the list of the touches in order; the last
\* path given is at the front when it names an existing file and the configured
\* maximum is at least one.
C13_ReplaceAllOnce ==
    \A paths \in RecentPathLists :
        LET r == AddRecentFiles(Cur, paths) IN
        /\ r.notes = << <<"recent_files_changed", -1>> >>
        /\ ~r.muted
        /\ r.rf = TouchEach([Cur EXCEPT !.rf = <<>>], paths).rf
        /\ (paths # <<>> /\ FileContent(paths[Len(paths)]) # "none"
              /\ cvars.max_recent_files >= 1) =>
              (r.rf # <<>> /\ r.rf[1] = ReplaceBackslash(paths[Len(paths)]))

\* The list holds paths that replaceAll with two other paths replaces, the second
\* of the two ending at the front.
C13_Witness ==
    /\ Len(recent_files) >= 2
    /\ cvars.max_recent_files >= 2
    /\ \E paths \in RecentPathLists :
          /\ Len(paths) = 2
          /\ Range(paths) \cap Range(recent_files) = {}
          /\ AddRecentFiles(Cur, paths).rf = <<paths[2], paths[1]>>
          /\ AddRecentFiles(Cur, <<>>).rf = <<>>
          /\ Len(AddRecentFiles(Cur, <<>>).notes) = 1

\* C14: every select(index) that is not the already-loaded no-op announces
\* "base_resource_changed" exactly once, whatever its outcome, and an unsuccessful
\* select leaves no base archive loaded.
C14_SelectAnnouncesOnce ==
    \A index \in -1..Len(base_resource_paths) :
        LET r == OpenBaseResource(Cur, index) IN
        ~(base_resource_archive # NullArchive /\ base_resource = index) =>
            /\ Count(r.notes, "base_resource_changed") = 1
            /\ r.ret = 0 => r.ba = NullArchive

\* C15: while a base archive is loaded, base_resource is a position of the path list
\* and the path there is the file the archive was loaded from; removing a path before
\* the selection lowers base_resource by one and keeps the archive loaded; removing
\* the selected path unloads the archive and leaves base_resource at -1.
C15_SelectionFollowsPaths ==
    /\ base_resource_archive # NullArchive =>
          /\ base_resource \in 0..(Len(base_resource_paths) - 1)
          /\ heap[base_resource_archive].live
          /\ base_resource_paths[base_resource + 1] = heap[base_resource_archive].filename
    /\ \A index \in 0..(Len(base_resource_paths) - 1) :
          LET r == RemoveBaseResourcePath(Cur, index) IN
          base_resource_archive # NullArchive =>
            /\ index < base_resource =>
                  /\ r.br = base_resource - 1
                  /\ r.ba = base_resource_archive
                  /\ r.hp[r.ba] = heap[base_resource_archive]
                  /\ r.bp[r.br + 1] = base_resource_paths[base_resource + 1]
            /\ index = base_resource =>
                  /\ r.ba = NullArchive
                  /\ r.br = -1
                  /\ base_resource_archive \notin r.pool
            /\ index > base_resource => (r.br = base_resource /\ r.ba = base_resource_archive)

\* The archive of the second of at least two paths is loaded: removing the first keeps
\* it loaded at index 0, removing the second unloads it.
C15_Witness ==
    /\ Len(base_resource_paths) >= 2
    /\ base_resource_archive # NullArchive
    /\ base_resource = 1
    /\ RemoveBaseResourcePath(Cur, 0).br = 0
    /\ RemoveBaseResourcePath(Cur, 0).ba = base_resource_archive
    /\ RemoveBaseResourcePath(Cur, 1).ba = NullArchive

\* The bookmarks the spec has removeAllInSubtree(node) remove: the one on the node's
\* directory entry, and those of the node's archive whose chain of directories up to
\* and including the root passes through the node.
RECURSIVE ChainHas(_, _, _)
ChainHas(content, dir, d) ==
    IF dir = d THEN TRUE
    ELSE IF dir = RootDir THEN FALSE
    ELSE ChainHas(content, DirParent(content, dir), d)
InSubtree(e, node) ==
    \/ e = [a |-> node.a, n |-> node.d]
    \/ /\ e.a = node.a
       /\ ChainHas(heap[node.a].content, ParentDir(heap[node.a].content, e.n), node.d)

\* C16: removeAllIn(archive) and removeAllInSubtree(node) each announce
\* "bookmarks_changed" exactly once when they remove a bookmark, the one on the
\* directory node itself included, and not at all when they remove none.
C16_BulkRemovalAnnouncesOnce ==
    /\ \A archive \in Handles :
          LET r == DeleteBookmarksInArchive(Cur, archive) IN
          Count(r.notes, "bookmarks_changed") = IF r.bm # bookmarks THEN 1 ELSE 0
    /\ \A node \in DirNodes :
          LET r == DeleteBookmarksInDir(Cur, node) IN
          Count(r.notes, "bookmarks_changed") = IF r.bm # bookmarks THEN 1 ELSE 0

\* C17: removeAllInSubtree(node) removes exactly the bookmark on the node's directory
\* entry and the bookmarks on entries in the directory or below it, for every
\* directory node, the root included, and keeps the others in their order.
C17_SubtreeRemovedExactly ==
    \A node \in DirNodes :
        LET Keep(e) == ~InSubtree(e, node)
        IN DeleteBookmarksInDir(Cur, node).bm = SelectSeq(bookmarks, Keep)

\* The call that returned r failed silently: it announced nothing and left the
\* registry with its child lists, the bookmarks, the resource pool, the recent files
\* and the archive objects as they were.
Untouched(r) ==
    /\ r.notes = <<>>
    /\ r.oa = open_archives
    /\ r.bm = bookmarks
    /\ r.pool = pool
    /\ r.rf = recent_files
    /\ r.hp = heap
    /\ ~r.ub

\* C18: close by index, by path or by handle on what is not tracked returns false,
\* announces nothing and changes nothing.
C18_CloseUntrackedNoOp ==
    /\ \A index \in {-1, Len(open_archives), Len(open_archives) + 1} :
          LET r == CloseArchive(Cur, index) IN r.ret = 0 /\ Untouched(r)
    /\ \A filename \in ClosePaths :
          LET r == CloseArchiveByName(Cur, filename) IN
          GetArchiveByName(Cur, filename) = NullArchive => (r.ret = 0 /\ Untouched(r))
    /\ \A archive \in Handles \cup {NullArchive} :
          LET r == CloseArchiveByHandle(Cur, archive) IN
          archive \notin Tracked => (r.ret = 0 /\ Untouched(r))

\* An archive with a child and a bookmark is tracked, and the caller holds an archive
\* that is not: closing that one by handle, or the other zip spelling by path, fails.
C18_Witness ==
    /\ \E i \in 1..Len(open_archives) : open_archives[i].open_children # <<>>
    /\ bookmarks # <<>>
    /\ recent_files # <<>>
    /\ GetArchiveByName(Cur, PathZ) # NullArchive
    /\ CloseArchiveByName(Cur, PathZw).ret = 0
    /\ \E archive \in unmanaged : CloseArchiveByHandle(Cur, archive).ret = 0

\* The open of the path, or of the entry, fails: the source is not open yet and its
\* format is not recognized or the recognized format's load fails.
PathFails(path) ==
    /\ GetArchiveByName(Cur, path) = NullArchive
    /\ (DetectPath(path) = "none" \/ ~Loads(FileContent(path)))
EntryOpen(entry) ==
    \E i \in 1..Len(open_archives) : heap[open_archives[i].archive].parentEntry = entry
EntryFails(entry) ==
    /\ ~EntryOpen(entry)
    /\ (DetectEntry(DataOf(Cur, entry), entry.n) = "none" \/ ~Loads(DataOf(Cur, entry)))

\* C19: a failing openFromPath or openFromEntry returns no archive, announces
\* nothing and changes nothing.
C19_FailedOpenNoOp ==
    \A manage \in BOOLEAN, silent \in BOOLEAN :
        /\ \A path \in ClosePaths :
              LET r == OpenArchivePath(Cur, path, manage, silent) IN
              PathFails(path) => (r.ret = NullArchive /\ Untouched(r))
        /\ \A entry \in LiveEntries :
              LET r == OpenArchiveEntry(Cur, entry, manage, silent) IN
              EntryFails(entry) => (r.ret = NullArchive /\ Untouched(r))

\* Archives are tracked, one of them a wad holding a damaged wad, with a bookmark and
\* recent files: opening a text file, a damaged wad, a lump or the damaged entry fails.
C19_Witness ==
    /\ bookmarks # <<>>
    /\ recent_files # <<>>
    /\ PathFails(PathBad) /\ OpenArchivePath(Cur, PathBad, TRUE, FALSE).ret = NullArchive
    /\ PathFails(PathFail) /\ OpenArchivePath(Cur, PathFail, TRUE, FALSE).ret = NullArchive
    /\ \E e \in TrackedEntries :
          /\ e.n = "f" /\ EntryFails(e)
          /\ DetectEntry(DataOf(Cur, e), e.n) = "wad"
          /\ OpenArchiveEntry(Cur, e, TRUE, FALSE).ret = NullArchive
    /\ \E e \in TrackedEntries :
          /\ DetectEntry(DataOf(Cur, e), e.n) = "none"
          /\ OpenArchiveEntry(Cur, e, TRUE, FALSE).ret = NullArchive

\* What C20 says of the result r of an open with manage = false.
LeftUntracked(r) ==
    /\ r.ret \notin RegistryOf(r)
    /\ r.hp[r.ret].live
    /\ r.oa = open_archives
    /\ r.pool = pool
    /\ r.notes = <<>>
    /\ r.rf = recent_files

\* C20: openFromPath or openFromEntry with manage = false on a source that is not
\* open returns an archive outside the registry: no record, no child list change,
\* nothing in the resource pool, no notification, the recent files unchanged.
C20_UnmanagedLeftUntracked ==
    \A silent \in BOOLEAN :
        /\ \A path \in ClosePaths :
              LET r == OpenArchivePath(Cur, path, FALSE, silent) IN
              (GetArchiveByName(Cur, path) = NullArchive /\ r.ret # NullArchive)
                  => LeftUntracked(r)
        /\ \A entry \in LiveEntries :
              LET r == OpenArchiveEntry(Cur, entry, FALSE, silent) IN
              (~EntryOpen(entry) /\ r.ret # NullArchive) => LeftUntracked(r)

\* A zip is tracked and listed in the recent files: its wad entry, and another file,
\* each open unmanaged into an archive the registry does not hold.
C20_Witness ==
    /\ recent_files # <<>>
    /\ \E e \in TrackedEntries :
          /\ ~EntryOpen(e)
          /\ OpenArchiveEntry(Cur, e, FALSE, FALSE).ret # NullArchive
          /\ OpenArchiveEntry(Cur, e, FALSE, FALSE).ret \notin Tracked
    /\ GetArchiveByName(Cur, PathB) = NullArchive
    /\ OpenArchivePath(Cur, PathB, FALSE, FALSE).ret # NullArchive
    /\ unmanaged # {}

\* How many times the sequence holds x.
Occurrences(seq, x) == Cardinality({i \in 1..Len(seq) : seq[i] = x})

\* The child list of the record of the archive in the state s, if it has a record.
ChildListOf(s, archive) ==
    LET index == ArchiveIndex(s.oa, archive)
    IN IF index < 0 THEN <<>> ELSE s.oa[index + 1].open_children

\* C21 as stated: openFromEntry(e, manage = true) twice on an entry that is not open
\* returns the same handle, adds exactly one record over the two calls, and the
\* handle is in the parent record's child list exactly once.
C21_OneRecordInTotal ==
    \A entry \in LiveEntries, silent1 \in BOOLEAN, silent2 \in BOOLEAN :
        LET r1 == OpenArchiveEntry(Cur, entry, TRUE, silent1)
            r2 == OpenArchiveEntry(After(r1), entry, TRUE, silent2)
        IN (~EntryOpen(entry) /\ r1.ret # NullArchive /\ ~r1.oom) =>
              /\ r2.ret = r1.ret
              /\ Len(r2.oa) = Len(open_archives) + 1
              /\ entry.a \in Tracked => Occurrences(ChildListOf(r2, entry.a), r1.ret) = 1

\* C21 as amended: the same handle both times, one record for it, once in the child
\* list of the entry's archive when that archive is tracked; the second call adds no
\* record; the first adds the handle's record and one for each wad it mounts from the
\* new archive's root, which is none when auto_open_wads_root is off.
C21_SecondOpenAddsNoRecord ==
    \A entry \in LiveEntries, silent1 \in BOOLEAN, silent2 \in BOOLEAN :
        LET r1 == OpenArchiveEntry(Cur, entry, TRUE, silent1)
            r2 == OpenArchiveEntry(After(r1), entry, TRUE, silent2)
        IN (~EntryOpen(entry) /\ r1.ret # NullArchive /\ ~r1.oom) =>
              /\ r2.ret = r1.ret
              /\ Cardinality({i \in 1..Len(r2.oa) : r2.oa[i].archive = r1.ret}) = 1
              /\ r2.oa = r1.oa
              /\ entry.a \in Tracked => Occurrences(ChildListOf(r2, entry.a), r1.ret) = 1
              /\ Len(r1.oa) = Len(open_archives) + 1 + Len(ChildListOf(r1, r1.ret))
              /\ ~cvars.auto_open_wads_root => Len(r1.oa) = Len(open_archives) + 1

\* The zip inside o.zip is tracked as a child of o.zip with its own wad mounted, and
\* opening its entry again returns it.
C21_Witness ==
    \E i \in 1..Len(open_archives) :
        LET a == open_archives[i].archive
            e == heap[a].parentEntry
        IN /\ e.n = "i"
           /\ e.a \in Tracked
           /\ open_archives[i].open_children # <<>>
           /\ Occurrences(ChildListOf(Cur, e.a), a) = 1
           /\ OpenArchiveEntry(Cur, e, TRUE, FALSE).ret = a
           /\ OpenArchiveEntry(Cur, e, TRUE, FALSE).oa = open_archives

\* The archive an "archive_added" is about: the last record at the time.
AddedAt(snapshot) == snapshot.oa[Len(snapshot.oa)].archive

\* What C22 says a listener finds at each notification of the call that returned r,
\* path being the path the call opened, if it opened one.
CommittedAtDelivery(r, path) ==
    \A i \in 1..Len(r.notes) :
        LET name == r.notes[i][1]
            at == r.seen[i]
        IN /\ name = "archive_added" =>
                LET a == AddedAt(at)
                    parent == r.hp[a].parentEntry.a
                IN /\ a \in RegistryOf(at)
                   /\ parent \in RegistryOf(at) => a \in Range(ChildListOf(at, parent))
                   /\ a \in at.pool
           /\ (name = "archive_opened" /\ path # NoPath) =>
                ReplaceBackslash(path) \in Range(at.rf)

\* C22: every notification is delivered after its mutation is complete: at
\* "archive_added" the record, the parent edge and the pool registration are in
\* place; at "archive_opened" for a newly opened path the path is in the recent
\* files; at "archive_closed" the record is gone.
C22_NotifiedAfterCommit ==
    /\ \A path \in OpenPaths :
          LET r == OpenArchivePath(Cur, path, TRUE, FALSE) IN
          (GetArchiveByName(Cur, path) = NullArchive /\ r.ret # NullArchive /\ ~r.oom)
              => CommittedAtDelivery(r, path)
    /\ \A entry \in LiveEntries :
          LET r == OpenArchiveEntry(Cur, entry, TRUE, FALSE) IN
          (~EntryOpen(entry) /\ r.ret # NullArchive /\ ~r.oom)
              => CommittedAtDelivery(r, NoPath)
    /\ \A index \in 0..(Len(open_archives) - 1) :
          LET r == CloseArchive(Cur, index) IN
          ~r.ub =>
              /\ r.notes[Len(r.notes)][1] = "archive_closed"
              /\ open_archives[index + 1].archive \notin RegistryOf(r.seen[Len(r.seen)])

\* The position of x in the sequence (0 if it is not there).
PositionIn(seq, x) ==
    IF x \in Range(seq) THEN CHOOSE i \in 1..Len(seq) : seq[i] = x ELSE 0

\* C23: for a tracked handle, dependentsOf returns exactly the archive's transitive
\* tracked descendants, each once, in pre-order: every archive is followed at once
\* by its own descendants, and siblings come in the order they were opened.
C23_DependentsPreOrder ==
    \A P \in Tracked :
        LET d == GetDependentArchives(Cur, P)
            vec == d.vec
        IN /\ ~d.ub
           /\ Range(vec) = DescendantsOf(P)
           /\ Cardinality(Range(vec)) = Len(vec)
           /\ \A k \in 1..Len(vec) :
                 LET below == DescendantsOf(vec[k]) IN
                 {vec[j] : j \in (k + 1)..(k + Cardinality(below))} = below
           /\ \A x, y \in Range(vec) :
                 (heap[x].parentEntry.a = heap[y].parentEntry.a
                    /\ ArchiveIndex(open_archives, x) < ArchiveIndex(open_archives, y))
                 => PositionIn(vec, x) < PositionIn(vec, y)

\* C24: the same bytes are identified as the same format from a file path and from
\* an entry's buffer, whatever the entry's name: the first format of one fixed order
\* whose detector accepts them, or unrecognized in both when none accepts.
C24_SameBytesSameFormat ==
    /\ PathFormatOrder = EntryFormatOrder
    /\ \A path \in FormatPaths, entry \in LiveEntries :
          FileContent(path) = DataOf(Cur, entry) =>
              /\ DetectEntry(DataOf(Cur, entry), entry.n) = DetectPath(path)
              /\ DetectPath(path) = FirstOf(PathFormatOrder, Accepts(FileContent(path)))
              /\ Accepts(FileContent(path)) = {} =>
                    (DetectPath(path) = "none"
                        /\ DetectEntry(DataOf(Cur, entry), entry.n) = "none")

\* The base resource members and what select can change besides them.
BaseStateOf(s) == [ba |-> s.ba, br |-> s.br, bp |-> s.bp, pool |-> s.pool, hp |-> s.hp]

\* C25: select(index) with the archive of that index loaded returns success, keeps
\* the archive, touches no pool registration and announces nothing; select(i) twice
\* in a row leaves the base resource state that one call leaves.
C25_SelectIdempotent ==
    \A index \in -1..Len(base_resource_paths) :
        LET r1 == OpenBaseResource(Cur, index)
            r2 == OpenBaseResource(After(r1), index)
        IN /\ (base_resource_archive # NullArchive /\ base_resource = index) =>
                /\ r1.ret = 1
                /\ r1.notes = <<>>
                /\ BaseStateOf(r1) = BaseStateOf(Cur)
           /\ ~r1.oom => BaseStateOf(r2) = BaseStateOf(r1)
           /\ (~r1.oom /\ r1.ret = 1) => (r2.ret = 1 /\ r2.notes = <<>>)

\* The archive of the second path is loaded; selecting it again changes nothing, and
\* selecting the first twice loads the first once.
C25_Witness ==
    /\ Len(base_resource_paths) >= 2
    /\ base_resource_archive # NullArchive
    /\ base_resource = 1
    /\ OpenBaseResource(Cur, 1).notes = <<>>
    /\ OpenBaseResource(Cur, 0).ret = 1
    /\ OpenBaseResource(Cur, 0).ba # NullArchive
    /\ OpenBaseResource(After(OpenBaseResource(Cur, 0)), 0).notes = <<>>

\* The "archive_closing" and "archive_closed" notifications of a call, in order.
ClosingNotes(notes) ==
    LET IsClose(n) == n[1] \in {"archive_closing", "archive_closed"}
    IN SelectSeq(notes, IsClose)

\* Reading the notifications from the k-th on with the indices of the archives still
\* being closed on a stack: each "archive_closed" carries the index of the latest
\* unanswered "archive_closing", and only the last notification empties the stack.
RECURSIVE Bracketed(_, _, _)
Bracketed(notes, k, stack) ==
    IF k > Len(notes) THEN stack = <<>>
    ELSE IF notes[k][1] = "archive_closing"
         THEN (k > 1 => stack # <<>>) /\ Bracketed(notes, k + 1, <<notes[k][2]>> \o stack)
         ELSE /\ stack # <<>>
              /\ Head(stack) = notes[k][2]
              /\ Bracketed(notes, k + 1, Tail(stack))

ResourceArchives(s) ==
    {s.oa[i].archive : i \in {j \in 1..Len(s.oa) : s.oa[j].resource}}
        \cup (IF s.ba # NullArchive THEN {s.ba} ELSE {})

\* C27: the resource pool holds exactly the tracked archives whose resource flag is
\* true and the loaded base resource; setting the flag of a tracked archive changes
\* the pool exactly when the flag changes, and of an untracked archive changes nothing.
C27_PoolFollowsFlags ==
    /\ pool = ResourceArchives(Cur)
    /\ \A archive \in Handles \cup {NullArchive}, resource \in BOOLEAN :
          LET r == SetArchiveResource(Cur, archive, resource)
              index == ArchiveIndex(open_archives, archive)
          IN /\ index < 0 => r = Cur
             /\ index >= 0 =>
                   /\ r.oa[index + 1].resource = resource
                   /\ (r.pool # pool) = (open_archives[index + 1].resource # resource)
                   /\ r.pool = ResourceArchives(r)

\* A base resource is loaded beside two tracked archives, one with its flag cleared
\* and so out of the pool, the other in it.
C27_Witness ==
    /\ base_resource_archive # NullArchive
    /\ Len(open_archives) = 2
    /\ ~open_archives[1].resource
    /\ open_archives[2].resource
    /\ pool = {base_resource_archive, open_archives[2].archive}

\* Every "archive_opened" of the call carries the registry index the returned handle
\* has when the notification is delivered, and still has when the call returns.
OpenedCarriesIndex(r) ==
    \A k \in 1..Len(r.notes) :
        r.notes[k][1] = "archive_opened" =>
            /\ r.ret # NullArchive
            /\ r.notes[k][2] >= 0
            /\ r.notes[k][2] = ArchiveIndex(r.seen[k].oa, r.ret)
            /\ r.notes[k][2] = ArchiveIndex(r.oa, r.ret)

\* C28: an event "saved", "modified" or "entry_modified" of a tracked archive is
\* re-broadcast as "archive_saved" or "archive_modified" with the archive's registry
\* index; an event of an announcer that has no record is not re-broadcast; and every
\* "archive_opened" carries the registry index of the handle the open returns.
C28_RebroadcastCarriesIndex ==
    /\ \A announcer \in Handles \cup {NullArchive}, event_name \in ArchiveEvents :
          LET r == OnAnnouncement(Cur, announcer, event_name)
              index == ArchiveIndex(open_archives, announcer)
          IN /\ After(r) = Cur
             /\ r.notes =
                   IF index < 0 THEN <<>>
                   ELSE IF event_name = "saved" THEN << <<"archive_saved", index>> >>
                   ELSE IF event_name \in {"modified", "entry_modified"}
                        THEN << <<"archive_modified", index>> >>
                   ELSE <<>>
             /\ r.notes # <<>> => open_archives[r.notes[1][2] + 1].archive = announcer
    /\ \A path \in {PathO, PathZ}, manage \in BOOLEAN :
          OpenedCarriesIndex(OpenArchivePath(Cur, path, manage, FALSE))
    /\ \A entry \in LiveEntries, manage \in BOOLEAN :
          OpenedCarriesIndex(OpenArchiveEntry(Cur, entry, manage, FALSE))

\* Two archives are tracked and a third is open but untracked: the second announces
\* "modified" and is re-broadcast with index 1, the third is not; and reopening the
\* path of the second announces "archive_opened" with index 1.
C28_Witness ==
    /\ Len(open_archives) = 2
    /\ unmanaged # {}
    /\ OnAnnouncement(Cur, open_archives[2].archive, "modified").notes
          = << <<"archive_modified", 1>> >>
    /\ \E path \in {PathO, PathZ} :
          /\ GetArchiveByName(Cur, path) = open_archives[2].archive
          /\ OpenArchivePath(Cur, path, TRUE, FALSE).notes = << <<"archive_opened", 1>> >>

\* The root entries of the archive that the entry type detection takes for a wad.
WadEntries(s, archive) ==
    {e \in Range(EntriesOf(s, archive)) : "wad" \in Accepts(DataOf(s, e))}

\* The tracked archives of s opened from the entry.
OpenedFrom(s, entry) ==
    {s.oa[i].archive : i \in {j \in 1..Len(s.oa) : s.hp[s.oa[j].archive].parentEntry = entry}}

\* What the managed open that returned r, from the state s, left of the root wads of
\* a new zip: with the flag on each wad that loads is tracked, once, in the child
\* list of the new archive and nothing else is; with the flag off the list is empty.
\* One "archive_added" per archive registered, and "archive_opened" for r.ret alone.
RootWadsMounted(s, r) ==
    LET zip == r.ret
        mounted == {e \in WadEntries(r, zip) : Loads(DataOf(r, e))}
        children == ChildListOf(r, zip)
    IN /\ ~r.ub
       /\ ArchiveIndex(r.oa, zip) >= 0
       /\ IF s.cv.auto_open_wads_root
          THEN /\ \A e \in mounted :
                     /\ Cardinality(OpenedFrom(r, e)) = 1
                     /\ Occurrences(children, CHOOSE c \in OpenedFrom(r, e) : TRUE) = 1
               /\ \A e \in WadEntries(r, zip) \ mounted : OpenedFrom(r, e) = {}
               /\ Len(children) = Cardinality(mounted)
          ELSE children = <<>>
       /\ Len(r.oa) = Len(s.oa) + 1 + Len(children)
       /\ Count(r.notes, "archive_added") = 1 + Len(children)
       /\ Count(r.notes, "archive_opened") = 1
       /\ \A k \in 1..Len(r.notes) :
             r.notes[k][1] = "archive_opened" => r.notes[k][2] = ArchiveIndex(r.oa, zip)

\* C29: with the auto-mount flag on, a managed open that registers a new zip leaves
\* every root entry recognized as a wad that loads open as a tracked archive in the
\* new archive's child list; each child produces "archive_added" and no
\* "archive_opened"; an entry that fails to open stops neither the open nor the
\* mounting of the entries after it.  With the flag off no child is opened.
C29_RootWadsAutoMounted ==
    /\ \A path \in MountPaths :
          LET r == OpenArchivePath(Cur, path, TRUE, FALSE) IN
          (GetArchiveByName(Cur, path) = NullArchive /\ r.ret # NullArchive /\ ~r.oom
             /\ r.hp[r.ret].format = "zip")
              => RootWadsMounted(Cur, r)
    /\ \A entry \in LiveEntries :
          LET r == OpenArchiveEntry(Cur, entry, TRUE, FALSE) IN
          (~EntryOpen(entry) /\ r.ret # NullArchive /\ ~r.oom
             /\ r.hp[r.ret].format = "zip")
              => RootWadsMounted(Cur, r)

\* m.zip, whose root holds a damaged wad before a good one, has been opened with the
\* flag on, alone: the good wad is its only child, registered behind it.
C29_Witness ==
    /\ cvars.auto_open_wads_root
    /\ Len(open_archives) = 2
    /\ heap[open_archives[1].archive].filename = PathM
    /\ open_archives[1].open_children = <<open_archives[2].archive>>
    /\ heap[open_archives[2].archive].parentEntry = [a |-> open_archives[1].archive, n |-> "w"]

\* closeArchive(int) up to the end of its loop over the children: the state in which
\* open_archives_[index] is read again.
AfterChildrenClosed(s, index) ==
    LET archive == s.oa[index + 1].archive
        s1 == Announce(s, "archive_closing", index)
        s2 == DeleteBookmarksInArchive(s1, archive)
        s3 == [s2 EXCEPT !.pool = @ \ {archive}]
    IN CloseChildren([s3 EXCEPT !.oa[index + 1].open_children = <<>>],
                     s3.oa[index + 1].open_children)

\* The archives of the first n records of the list.
FirstArchives(oa, n) == [i \in 1..n |-> oa[i].archive]

\* C30: every archive in a record's child list has a record at a strictly higher
\* position than that record; so closing the children leaves the archive being closed
\* at the index the close was given, and it is that archive that is released and
\* whose record is erased.
C30_ChildrenAboveParent ==
    /\ \A i \in 1..Len(open_archives) :
          \A k \in 1..Len(open_archives[i].open_children) :
              ArchiveIndex(open_archives, open_archives[i].open_children[k]) > i - 1
    /\ \A index \in 0..(Len(open_archives) - 1) :
          LET archive == open_archives[index + 1].archive
              mid == AfterChildrenClosed(Cur, index)
              r == CloseArchive(Cur, index)
          IN /\ index < Len(mid.oa)
             /\ mid.oa[index + 1].archive = archive
             /\ FirstArchives(mid.oa, index) = FirstArchives(open_archives, index)
             /\ ~r.hp[archive].live
             /\ archive \notin RegistryOf(r)
             /\ FirstArchives(r.oa, index) = FirstArchives(open_archives, index)

\* A zip, the zip opened from its entry and the wad opened from an entry of that one
\* are tracked in this order: closing index 1 closes the wad at index 2 first and
\* then erases index 1, leaving the outer zip.
C30_Witness ==
    /\ Len(open_archives) = 3
    /\ open_archives[1].open_children = <<open_archives[2].archive>>
    /\ open_archives[2].open_children = <<open_archives[3].archive>>
    /\ LET r == CloseArchive(Cur, 1)
       IN /\ Len(r.oa) = 1
          /\ r.oa[1].archive = open_archives[1].archive
          /\ r.oa[1].open_children = <<>>

\* removeRecentFile(path) called right after addRecentFile(path) returned t: the
\* entry addRecentFile recorded for the path is gone, under the path as written and
\* as stored, and "recent_files_changed" is announced exactly when the list changed.
RemovedAfterTouch(t, path) ==
    LET r == RemoveRecentFile(After(t), path)
    IN /\ path \notin Range(r.rf)
       /\ ReplaceBackslash(path) \notin Range(r.rf)
       /\ Count(r.notes, "recent_files_changed") = (IF r.rf # t.rf THEN 1 ELSE 0)
       /\ Len(r.notes) = Count(r.notes, "recent_files_changed")

\* C31: removeRecentFile(p) after addRecentFile(p) removes the entry recorded for p,
\* for every path string p, one written with backslashes included, and announces
\* "recent_files_changed" exactly when it removed something.
C31_RemoveUndoesTouch ==
    \A path \in RecentPaths : RemovedAfterTouch(AddRecentFile(Cur, path), path)

====
